---- MODULE Spec2Model ----
(***************************************************************************)
(* A state-machine model of the debate system's core:                      *)
(*   core/memory.py        MemoryStore (bounded key/value log, durable)    *)
(*   core/orchestrator.py  DebateOrchestrator (rounds, retries, frames)    *)
(*   utils/validators.py   ensure_non_empty                                *)
(*   agents/aristotle.py   the tool-using persona's reply                  *)
(*                                                                         *)
(* Text is a sequence of one-character strings (a question) or of tokens   *)
(* (a reply, a memory key), so that strip and the format strings are       *)
(* computed, not assumed.  Python's None is NoneV, a present value v is    *)
(* Some(v).  A dict is the sequence of its entries in insertion order.     *)
(***************************************************************************)
EXTENDS Integers, Sequences, FiniteSets, TLC

VARIABLES
    mem,        \* the MemoryStore object: max_entries, auto_save, has_path, entries
    file,       \* the durable memory file: missing, corrupt, or a saved mapping
    now,        \* the wall clock datetime.now() reads
    memop,      \* the last MemoryStore operation (see MemOp)
    nops,       \* number of direct MemoryStore calls made so far (bounded)
    config,     \* the OrchestratorConfig, and the persona keys the provider has
    agents,     \* the registry: the persona keys that were constructed
    tools,      \* tools_enabled of the tool-using persona's AgentConfig
    rng,        \* the state of the shared pseudo-random source (module random)
    gen,        \* the generator stream_debate returned: position and locals
    frames,     \* the frames the generator has yielded to its consumer
    lastcall,   \* the last reply call of the run: who, which attempt, the
                \* transcript it was given, the tool it used, its outcome
    runs,       \* the runs made: per run its arguments, orders and call outcomes
    caller,     \* who iterates the generator: a streaming consumer or run_debate
    other,      \* a second generator of the same orchestrator, at rest at a
                \* yield while the first is advanced, with its consumer
    probe       \* the last direct call of the tool layer: its inputs and result

memvars == <<mem, file, now, memop, nops>>

orchvars == <<config, agents, tools, rng, gen, frames, lastcall, runs, caller,
              other>>

vars == <<mem, file, now, memop, nops, config, agents, tools, rng, gen, frames,
          lastcall, runs, caller, other, probe>>

NoneV == <<>>

Some(v) == <<v>>

(***************************************************************************)
(* Bounds of the exploration.                                              *)
(***************************************************************************)
MaxOps == 3

MaxClock == 1

MaxEntries == 2

Keys == {<<"k1">>, <<"k2">>, <<"k3">>}

Values == {<<"v1">>, <<"v2">>}

SaveOutcomes == {"ok", "denied", "partial"}

(***************************************************************************)
(* core/memory.py                                                          *)
(***************************************************************************)
MemoryEntry(key, value, timestamp, source) ==
    [key |-> key, value |-> value, timestamp |-> timestamp, source |-> source]

HasKey(es, k) == \E i \in 1..Len(es) : es[i].key = k

KeysOf(es) == {es[i].key : i \in 1..Len(es)}

\* self.entries[key] = entry: an existing key keeps its place in the dict,
\* a new key goes last.
DictSet(es, e) ==
    IF HasKey(es, e.key)
    THEN [i \in 1..Len(es) |-> IF es[i].key = e.key THEN e ELSE es[i]]
    ELSE Append(es, e)

\* self.entries.pop(key, None)
DictPop(es, k) == SelectSeq(es, LAMBDA e : e.key # k)

\* A store that drops the first inserted entry whatever its timestamp.
OldestIndexFifo(es) == 1

\* sorted(self.entries.values(), key=lambda e: e.timestamp)[0]: the sort is
\* stable, so among the entries of least timestamp the first inserted wins.
OldestIndex(es) ==
    CHOOSE i \in 1..Len(es) :
        /\ \A j \in 1..Len(es) : es[i].timestamp <= es[j].timestamp
        /\ \A j \in 1..(i - 1) : es[j].timestamp > es[i].timestamp

\* The eviction step of add_entry.
Evict(es, max_entries) ==
    IF Len(es) > max_entries
    THEN DictPop(es, es[OldestIndex(es)].key)
    ELSE es

\* MemoryStore.add_entry without its trailing _save: the entries afterwards.
AddEntries(m, key, value, source, t) ==
    Evict(DictSet(m.entries, MemoryEntry(key, value, t, source)), m.max_entries)

FileMissing == [state |-> "missing", data |-> <<>>]

FileCorrupt == [state |-> "corrupt", data |-> <<>>]

\* MemoryEntry.to_dict (asdict): the entry as a JSON object, a sequence of
\* name/value pairs in field order.
ToDict(e) ==
    <<<<"key", e.key>>, <<"value", e.value>>, <<"timestamp", e.timestamp>>,
      <<"source", e.source>>>>

\* data[name] of a JSON object that has the name.
Field(d, name) == d[CHOOSE i \in 1..Len(d) : d[i][1] = name][2]

\* MemoryEntry.from_dict: cls(**data)
FromDict(d) ==
    MemoryEntry(Field(d, "key"), Field(d, "value"), Field(d, "timestamp"),
                Field(d, "source"))

\* The file json.dump leaves: {k: v.to_dict() for k, v in entries.items()}
FileOf(es) ==
    [state |-> "ok", data |-> [i \in 1..Len(es) |-> <<es[i].key, ToDict(es[i])>>]]

\* A _save that returns early on an empty store.
SaveFileSkipsEmpty(m, f, outcome) ==
    IF ~m.has_path \/ m.entries = <<>> THEN f
    ELSE CASE outcome = "ok" -> FileOf(m.entries)
           [] outcome = "denied" -> f
           [] OTHER -> FileCorrupt

\* MemoryStore._save: the durable file afterwards.  The write either
\* succeeds, fails before the file is opened (mkdir/open raise: the file is
\* as before), or fails after open(..., "w") truncated it (a partial dump
\* is left, which no longer parses).  Every failure is logged and swallowed.
SaveFile(m, f, outcome) ==
    IF ~m.has_path THEN f
    ELSE CASE outcome = "ok" -> FileOf(m.entries)
           [] outcome = "denied" -> f
           [] OTHER -> FileCorrupt

\* MemoryStore._load: the entries after loading.
LoadEntries(f) ==
    IF f.state = "ok"
    THEN [i \in 1..Len(f.data) |-> FromDict(f.data[i][2])]
    ELSE <<>>

\* MemoryStore.__init__
NewStore(has_path, auto_save, max_entries, f) ==
    [max_entries |-> max_entries,
     auto_save   |-> auto_save,
     has_path    |-> has_path,
     entries     |-> IF has_path THEN LoadEntries(f) ELSE <<>>]

\* MemoryStore.get_entry
GetEntry(m, k) ==
    IF HasKey(m.entries, k)
    THEN Some(m.entries[CHOOSE i \in 1..Len(m.entries) : m.entries[i].key = k].value)
    ELSE NoneV

\* What the last MemoryStore call was: the operation, its key, the number of
\* entries it found and whether its key was new to the store.
MemOp(op, key, es) ==
    [op    |-> op,
     key   |-> key,
     size  |-> Len(es),
     fresh |-> IF key = NoneV THEN FALSE ELSE ~HasKey(es, key[1])]

\* The record of an add_entry call: MemOp and the value and source written.
AddOp(key, value, source, es) ==
    [op     |-> "add",
     key    |-> Some(key),
     size   |-> Len(es),
     fresh  |-> ~HasKey(es, key),
     value  |-> value,
     source |-> source]

(***************************************************************************)
(* Text: utils/validators.py and the string tests of agents/aristotle.py.  *)
(***************************************************************************)
Whitespace == {" ", "\t", "\n"}

Digits == {"0", "1", "2", "3", "4", "5", "6", "7", "8", "9"}

UpperCase == <<"A", "B", "C", "D", "E", "F", "G", "H", "I", "J", "K", "L", "M",
               "N", "O", "P", "Q", "R", "S", "T", "U", "V", "W", "X", "Y", "Z">>

LowerCase == <<"a", "b", "c", "d", "e", "f", "g", "h", "i", "j", "k", "l", "m",
               "n", "o", "p", "q", "r", "s", "t", "u", "v", "w", "x", "y", "z">>

\* str.lower() on one character.
LowerChar(c) ==
    IF \E i \in 1..Len(UpperCase) : UpperCase[i] = c
    THEN LowerCase[CHOOSE i \in 1..Len(UpperCase) : UpperCase[i] = c]
    ELSE c

\* str.lower()
LowerText(s) == [i \in 1..Len(s) |-> LowerChar(s[i])]

\* w in s, for a non-empty w
Contains(s, w) ==
    \E i \in 1..(Len(s) - Len(w) + 1) : SubSeq(s, i, i + Len(w) - 1) = w

\* s.startswith(w)
StartsWith(s, w) == Len(w) <= Len(s) /\ SubSeq(s, 1, Len(w)) = w

\* str.strip(): the text without its leading and trailing whitespace.
Strip(s) ==
    IF \A i \in 1..Len(s) : s[i] \in Whitespace
    THEN <<>>
    ELSE LET first == CHOOSE i \in 1..Len(s) :
                          s[i] \notin Whitespace /\ \A j \in 1..(i - 1) : s[j] \in Whitespace
             last  == CHOOSE i \in 1..Len(s) :
                          s[i] \notin Whitespace /\ \A j \in (i + 1)..Len(s) : s[j] \in Whitespace
         IN SubSeq(s, first, last)

\* A validation that forgets to strip.
IsEmptyTextNoStrip(text) == text = <<>>

\* ensure_non_empty raises ValueError: not text or not text.strip()
IsEmptyText(text) == text = <<>> \/ Strip(text) = <<>>

\* ensure_non_empty's return value, when it returns.
ensure_non_empty(text) == Strip(text)

(***************************************************************************)
(* core/memory.py: the queries.                                            *)
(***************************************************************************)
\* A sort that leaves the entries in insertion order.
RECURSIVE NewestFirstUnsorted(_)
NewestFirstUnsorted(es) ==
    IF es = <<>> THEN <<>>
    ELSE <<es[1]>> \o NewestFirstUnsorted(Tail(es))

\* sorted(entries, key=lambda e: e.timestamp, reverse=True): the sort is
\* stable, entries of equal timestamp keep their insertion order.
RECURSIVE NewestFirst(_)
NewestFirst(es) ==
    IF es = <<>> THEN <<>>
    ELSE LET i == CHOOSE i \in 1..Len(es) :
                     /\ \A j \in 1..Len(es) : es[j].timestamp <= es[i].timestamp
                     /\ \A j \in 1..(i - 1) : es[j].timestamp < es[i].timestamp
         IN <<es[i]>> \o NewestFirst(SubSeq(es, 1, i - 1) \o SubSeq(es, i + 1, Len(es)))

\* s[:n]
Slice(s, n) ==
    IF n >= 0
    THEN SubSeq(s, 1, IF n < Len(s) THEN n ELSE Len(s))
    ELSE SubSeq(s, 1, IF Len(s) + n > 0 THEN Len(s) + n ELSE 0)

\* A search that compares the query as typed with the lower-cased texts.
SearchCaseSensitive(m, query, limit) ==
    LET hit(e) == \/ Contains(LowerText(e.key), query)
                  \/ Contains(LowerText(e.value), query)
    IN Slice(NewestFirst(SelectSeq(m.entries, hit)), limit)

\* MemoryStore.search(query, limit); str(value) of a text value is the value.
Search(m, query, limit) ==
    LET query_lower == LowerText(query)
        hit(e) == \/ Contains(LowerText(e.key), query_lower)
                  \/ Contains(LowerText(e.value), query_lower)
    IN Slice(NewestFirst(SelectSeq(m.entries, hit)), limit)

\* MemoryStore.get_recent(n)
GetRecent(m, n) == Slice(NewestFirst(m.entries), n)

\* "\n".join(lines)
RECURSIVE JoinLines(_)
JoinLines(lines) ==
    IF lines = <<>> THEN <<>>
    ELSE IF Len(lines) = 1 THEN lines[1]
    ELSE lines[1] \o <<"\n">> \o JoinLines(Tail(lines))

\* f"- {entry.key}: {entry.value} (from {entry.source})"
EntryLine(e) == <<"- ">> \o e.key \o <<": ">> \o e.value \o <<" (from ", e.source, ")">>

\* MemoryStore.format_for_prompt(limit)
FormatForPrompt(m, limit) ==
    LET recent == GetRecent(m, limit)
    IN IF recent = <<>>
       THEN <<"No relevant memory.">>
       ELSE JoinLines(<<<<"Recent relevant context:">>>>
                      \o [i \in 1..Len(recent) |-> EntryLine(recent[i])])

(***************************************************************************)
(* agents/summary.py: the summarizer's post-processing of the raw reply.    *)
(***************************************************************************)
\* str.rstrip(): the text without its trailing whitespace.
RStrip(s) ==
    IF \A i \in 1..Len(s) : s[i] \in Whitespace
    THEN <<>>
    ELSE LET last == CHOOSE i \in 1..Len(s) :
                         s[i] \notin Whitespace /\ \A j \in (i + 1)..Len(s) : s[j] \in Whitespace
         IN SubSeq(s, 1, last)

\* str.splitlines(), for texts whose only line boundary is "\n": a trailing
\* newline opens no further line.
RECURSIVE SplitLines(_)
SplitLines(s) ==
    IF s = <<>> THEN <<>>
    ELSE IF \A i \in 1..Len(s) : s[i] # "\n" THEN <<s>>
    ELSE LET i == CHOOSE i \in 1..Len(s) :
                     s[i] = "\n" /\ \A j \in 1..(i - 1) : s[j] # "\n"
         IN <<SubSeq(s, 1, i - 1)>> \o SplitLines(SubSeq(s, i + 1, Len(s)))

\* The prefixes extract_response removes: f"{name}:" and f"[{name}]", for the
\* summarizer's name "Summary".
SummaryPrefixes ==
    <<<<"S", "u", "m", "m", "a", "r", "y", ":">>,
      <<"[", "S", "u", "m", "m", "a", "r", "y", "]">>>>

\* The loop of lines 16-19: the first prefix the text starts with is cut
\* off and the rest stripped.
CutPrefix(response, prefixes) ==
    IF \E i \in 1..Len(prefixes) : StartsWith(response, prefixes[i])
    THEN LET i == CHOOSE i \in 1..Len(prefixes) :
                     /\ StartsWith(response, prefixes[i])
                     /\ \A j \in 1..(i - 1) : ~StartsWith(response, prefixes[j])
         IN Strip(SubSeq(response, Len(prefixes[i]) + 1, Len(response)))
    ELSE response

\* A post-processing that keeps the first line only.
ExtractSummaryFirstLine(raw_output) ==
    LET response == CutPrefix(Strip(raw_output), SummaryPrefixes)
        lines    == SplitLines(response)
    IN IF lines = <<>> THEN <<>> ELSE RStrip(lines[1])

\* SummaryAgent.extract_response
ExtractSummary(raw_output) ==
    LET response == CutPrefix(Strip(raw_output), SummaryPrefixes)
        lines    == [i \in 1..Len(SplitLines(response)) |-> RStrip(SplitLines(response)[i])]
        filtered == SelectSeq(lines, LAMBDA line : Strip(line) # <<>>)
    IN JoinLines(filtered)

(***************************************************************************)
(* agents/aristotle.py: the tool decision.                                 *)
(***************************************************************************)
ToolKeywords ==
    {<<"h", "o", "w">>,
     <<"p", "l", "a", "n">>,
     <<"s", "t", "e", "p", "s">>,
     <<"a", "c", "t", "i", "o", "n">>,
     <<"s", "t", "r", "a", "t", "e", "g", "y">>,
     <<"r", "e", "s", "e", "a", "r", "c", "h">>,
     <<"f", "i", "n", "d">>,
     <<"s", "e", "a", "r", "c", "h">>,
     <<"c", "a", "l", "c", "u", "l", "a", "t", "e">>,
     <<"c", "u", "r", "r", "e", "n", "t">>,
     <<"i", "n", "f", "o", "r", "m", "a", "t", "i", "o", "n", " ", "a", "b", "o", "u", "t">>,
     <<"t", "e", "l", "l", " ", "m", "e", " ", "a", "b", "o", "u", "t">>,
     <<"f", "i", "n", "d", " ", "o", "u", "t">>,
     <<"e", "x", "p", "l", "a", "i", "n">>}

SearchIntents ==
    {<<"s", "e", "a", "r", "c", "h">>,
     <<"l", "o", "o", "k", " ", "u", "p">>,
     <<"f", "i", "n", "d">>,
     <<"g", "o", "o", "g", "l", "e">>,
     <<"b", "r", "o", "w", "s", "e">>,
     <<"r", "e", "s", "e", "a", "r", "c", "h">>,
     <<"i", "n", "f", "o", "r", "m", "a", "t", "i", "o", "n", " ", "a", "b", "o", "u", "t">>,
     <<"t", "e", "l", "l", " ", "m", "e", " ", "a", "b", "o", "u", "t">>,
     <<"f", "i", "n", "d", " ", "o", "u", "t">>,
     <<"e", "x", "p", "l", "a", "i", "n">>}

TemporalWords ==
    {<<"c", "u", "r", "r", "e", "n", "t">>,
     <<"t", "o", "d", "a", "y">>,
     <<"n", "o", "w">>,
     <<"d", "a", "t", "e">>,
     <<"t", "i", "m", "e">>}

QuestionWords ==
    {<<"w", "h", "a", "t">>,
     <<"w", "h", "o">>,
     <<"w", "h", "e", "r", "e">>,
     <<"w", "h", "e", "n">>,
     <<"w", "h", "y">>,
     <<"h", "o", "w">>}

\* re.search(r"\d+[\+\-\*\/%]", text)
HasMathHint(text) ==
    \E i \in 1..(Len(text) - 1) :
        text[i] \in Digits /\ text[i + 1] \in {"+", "-", "*", "/", "%"}

\* re.search(r"\d+[\+\-\*\/%\(\)]\d+", text)
HasExpression(text) ==
    \E i \in 1..(Len(text) - 2) :
        /\ text[i] \in Digits
        /\ text[i + 1] \in {"+", "-", "*", "/", "%", "(", ")"}
        /\ text[i + 2] \in Digits

\* str(turn.get("speaker", "")).lower() == "user", for the speakers a
\* transcript holds.
IsUserTurn(turn) == turn.speaker = "User"

\* The content of the most recent user turn, or the question when the
\* transcript holds none (_should_use_tools, lines 46-51).
RecentUser(question, history) ==
    LET users == {i \in 1..Len(history) : IsUserTurn(history[i])}
    IN IF users = {} THEN question
       ELSE history[CHOOSE i \in users : \A j \in users : j <= i].content

\* AristotleAgent._should_use_tools
ShouldUseTools(question, history) ==
    \E text \in {LowerText(RecentUser(question, history))} :
        (\E kw \in ToolKeywords : Contains(text, kw)) \/ HasMathHint(text)

\* A classifier that tests the temporal words before the search intents.
DetectInTextTemporalFirst(text) ==
    IF HasExpression(text) THEN Some("calculate")
    ELSE IF \E k \in TemporalWords : Contains(text, k) THEN Some("get_current_info")
    ELSE IF \E k \in SearchIntents : Contains(text, k) THEN Some("web_search")
    ELSE IF \E i \in 1..Len(text) : text[i] \in Digits THEN Some("calculate")
    ELSE IF \E qw \in QuestionWords : StartsWith(text, qw) THEN Some("web_search")
    ELSE NoneV

\* The branches of _detect_tool_needed on the lower-cased prompt.
DetectInText(text) ==
    IF HasExpression(text) THEN Some("calculate")
    ELSE IF \E k \in SearchIntents : Contains(text, k) THEN Some("web_search")
    ELSE IF \E k \in TemporalWords : Contains(text, k) THEN Some("get_current_info")
    ELSE IF \E i \in 1..Len(text) : text[i] \in Digits THEN Some("calculate")
    ELSE IF \E qw \in QuestionWords : StartsWith(text, qw) THEN Some("web_search")
    ELSE NoneV

\* AristotleAgent._detect_tool_needed: Some(tool) or NoneV.
DetectToolNeeded(tools_enabled, prompt) ==
    IF ~tools_enabled THEN NoneV
    ELSE CHOOSE tool \in {DetectInText(text) : text \in {LowerText(prompt)}} : TRUE

\* A tool choice that does not look at tools_enabled.
ToolChosenUngated(tools_enabled, question, history) ==
    IF ShouldUseTools(question, history)
    THEN DetectToolNeeded(TRUE, question)
    ELSE NoneV

\* The tool the reply uses, if any (generate_response, lines 119-121).
ToolChosen(tools_enabled, question, history) ==
    IF tools_enabled /\ ShouldUseTools(question, history)
    THEN DetectToolNeeded(tools_enabled, question)
    ELSE NoneV

\* The characters of the class [\d\+\-\*\/%\(\)\.\s] (line 126).
ExprChars == Digits \cup {"+", "-", "*", "/", "%", "(", ")", "."} \cup Whitespace

\* The end of the run of characters of `class` that starts at index i of s.
RECURSIVE RunEnd(_, _, _)
RunEnd(s, i, class) ==
    IF i < Len(s) /\ s[i + 1] \in class THEN RunEnd(s, i + 1, class) ELSE i

\* re.search(r"[\d\+\-\*\/%\(\)\.\s]+", user_prompt) (line 126): the match
\* starts at the leftmost character of the class and takes the whole run
\* from there; NoneV when the prompt has no character of the class.
ExpressionMatch(user_prompt) ==
    LET hits == {i \in 1..Len(user_prompt) : user_prompt[i] \in ExprChars}
    IN IF hits = {} THEN NoneV
       ELSE LET first == CHOOSE i \in hits : \A j \in hits : i <= j
            IN Some(SubSeq(user_prompt, first, RunEnd(user_prompt, first, ExprChars)))

SentenceEnds == {".", "!", "?"}

\* re.split(r"[.!?]+", text) (line 100): the pieces between the runs of
\* sentence ends, empty pieces included.
RECURSIVE SplitSentences(_)
SplitSentences(text) ==
    LET ends == {i \in 1..Len(text) : text[i] \in SentenceEnds}
    IN IF ends = {} THEN <<text>>
       ELSE LET first == CHOOSE i \in ends : \A j \in ends : i <= j
                last  == RunEnd(text, first, SentenceEnds)
            IN <<SubSeq(text, 1, first - 1)>>
                   \o SplitSentences(SubSeq(text, last + 1, Len(text)))

QuestionStarts ==
    QuestionWords \cup {<<"i", "s">>, <<"a", "r", "e">>, <<"c", "a", "n">>}

\* The first of the stripped sentences that starts like a question (lowered
\* is their lower-case form), or else the last sentence (lines 101-110).
FirstQuestion(stripped, lowered) ==
    LET asks == {i \in 1..Len(lowered) :
                    \E qw \in QuestionStarts : StartsWith(lowered[i], qw)}
    IN IF asks # {}
       THEN stripped[CHOOSE i \in asks : \A j \in asks : i <= j]
       ELSE stripped[Len(stripped)]

\* AristotleAgent._extract_question_from_response: the first sentence that
\* starts like a question, or else the last sentence, stripped.
ExtractQuestionFromResponse(text) ==
    CHOOSE q \in {FirstQuestion(st, [i \in 1..Len(st) |-> LowerText(st[i])]) :
                     st \in {[i \in 1..Len(ss) |-> Strip(ss[i])] :
                                ss \in {SplitSentences(text)}}} : TRUE

\* The info_type asked of the clock, from the lower-case prompt (130-135).
InfoType(text) ==
    IF Contains(text, <<"t", "i", "m", "e">>)
    THEN <<"t", "i", "m", "e">>
    ELSE IF \/ Contains(text, <<"d", "a", "t", "e">>)
            \/ Contains(text, <<"t", "o", "d", "a", "y">>)
    THEN <<"d", "a", "t", "e">>
    ELSE <<"d", "a", "t", "e", "t", "i", "m", "e">>

\* The query handed to execute_tool (generate_response, lines 122-135).
ToolQuery(tool, user_prompt) ==
    IF tool = "calculate"
    THEN CHOOSE q \in {IF expr # NoneV
                       THEN Strip(expr[1])
                       ELSE ExtractQuestionFromResponse(user_prompt) :
                          expr \in {ExpressionMatch(user_prompt)}} : TRUE
    ELSE IF tool = "get_current_info"
    THEN InfoType(LowerText(user_prompt))
    ELSE ExtractQuestionFromResponse(user_prompt)

ToolOutcomes == {"ok", "error"}


\* TOOL_REGISTRY after the module is imported (the three register_tool uses).
ToolRegistry == {"web_search", "calculate", "get_current_info"}

\* What a call hands to its caller: a value returned, or an exception.
Returns(value) == [raised |-> FALSE, value |-> value]

Raises(exc) == [raised |-> TRUE, value |-> exc]

\* A tool layer without the try block: the function's exception propagates.
ExecuteToolUnguarded(tool_name, outcome) ==
    IF tool_name \notin ToolRegistry
    THEN Returns(<<"Error: Tool '", tool_name, "' not found">>)
    ELSE IF outcome = "error"
    THEN Raises(<<"exc">>)
    ELSE IF tool_name = "web_search"
    THEN Returns(<<<<"hit1">>, <<"hit2">>>>)
    ELSE Returns(<<"result">>)

\* execute_tool(tool_name, *args): outcome says whether the registered
\* function returns ("ok") or raises an Exception ("error").
ExecuteTool(tool_name, outcome) ==
    IF tool_name \notin ToolRegistry
    THEN Returns(<<"Error: Tool '", tool_name, "' not found">>)
    ELSE IF outcome = "error"
    THEN Returns(<<"Tool execution error: ", "exc">>)
    ELSE IF tool_name = "web_search"
    THEN Returns(<<<<"hit1">>, <<"hit2">>>>)
    ELSE Returns(<<"result">>)

\* isinstance(tool_result, list): web_search returns a list of texts, the
\* other tools and every error a text.
IsList(tool_name, outcome) ==
    tool_name = "web_search" /\ outcome = "ok"

\* tool_result as generate_response records it (lines 137-140): the result
\* of execute_tool, a list joined by newlines.
ToolResult(tool, outcome) ==
    IF IsList(tool, outcome)
    THEN JoinLines(ExecuteTool(tool, outcome).value)
    ELSE ExecuteTool(tool, outcome).value

\* No direct call of the tool layer was made yet.
ProbeIdle == [op |-> "none"]

(***************************************************************************)
(* core/orchestrator.py: construction, ordering, the reply of a persona.   *)
(***************************************************************************)
MaxRounds == 2

MaxRetries == 2

MaxRuns == 2

RngMod == 7

AllAgents == {"socrates", "plato", "aristotle", "summary"}

BaseOrder == <<"socrates", "plato", "aristotle">>

\* AgentConfig.name as the config provider gives it (key.title()).
Name(key) ==
    CASE key = "socrates" -> "Socrates"
      [] key = "plato" -> "Plato"
      [] key = "aristotle" -> "Aristotle"
      [] OTHER -> "Summary"

\* The texts a reply call can return.
Replies == {<<"r1">>}

\* random.seed(s): the state the source is left in.
SeedState(s) == s % RngMod

\* One draw advances the source.
RngNext(r) == (3 * r + 1) % RngMod

\* random._randbelow(n) on state r.
RandBelow(n, r) == r % n

\* An exchange that overwrites one element instead of swapping two.
SwapOverwrite(xs, i, j) == [xs EXCEPT ![i] = xs[j]]

Swap(xs, i, j) ==
    [k \in 1..Len(xs) |-> IF k = i THEN xs[j] ELSE IF k = j THEN xs[i] ELSE xs[k]]

\* random.shuffle(x): for i in reversed(range(1, len(x))):
\*     j = randbelow(i + 1); x[i], x[j] = x[j], x[i]
RECURSIVE ShuffleFrom(_, _, _)
ShuffleFrom(xs, i, r) ==
    IF i < 2 THEN [order |-> xs, rng |-> r]
    ELSE ShuffleFrom(Swap(xs, i, RandBelow(i, r) + 1), i - 1, RngNext(r))

\* A construction that leaves the shared source as it finds it.
SeedAtConstructionSkipped(cfg, r) == r

\* DebateOrchestrator.__init__, lines 34-35: the source after construction.
SeedAtConstruction(cfg, r) ==
    IF cfg.random_seed # NoneV THEN SeedState(cfg.random_seed[1]) ELSE r

\* A construction that registers every persona of the factory.
InitAgentsAll(provided) == AllAgents

\* DebateOrchestrator._init_agents: a persona of the factory is registered
\* iff get_agent_config(key) returns; a KeyError is logged and skipped.
InitAgents(provided) == {key \in AllAgents : key \in provided}

\* DebateOrchestrator._debate_agents
DebateAgents(registry) == SelectSeq(BaseOrder, LAMBDA k : k \in registry)

\* DebateOrchestrator._agent_order: the order and the source afterwards.
AgentOrder(registry, cfg, r) ==
    IF cfg.random_order
    THEN ShuffleFrom(DebateAgents(registry), Len(DebateAgents(registry)), r)
    ELSE [order |-> DebateAgents(registry), rng |-> r]

\* A sentinel that names the persona by its display name.
RetrySentinelDisplayName(agent_key, max_retries) ==
    <<"[Error: ", Name(agent_key), " failed after ", ToString(max_retries), " attempts]">>

\* The retry sentinel of _get_agent_response (line 136).
RetrySentinel(agent_key, max_retries) ==
    <<"[Error: ", agent_key, " failed after ", ToString(max_retries), " attempts]">>

\* A retry loop that gives up one attempt too late.
AttemptResultExtraTry(genout, attempt, agent_key, max_retries) ==
    IF genout # NoneV
    THEN [done |-> TRUE, content |-> genout[1], attempt |-> 0]
    ELSE IF attempt + 1 > max_retries
    THEN [done |-> TRUE, content |-> RetrySentinel(agent_key, max_retries), attempt |-> 0]
    ELSE [done |-> FALSE, content |-> <<>>, attempt |-> attempt + 1]

\* A retry loop that never gives up: the last attempt is made again.
AttemptResultNoGiveUp(genout, attempt, agent_key, max_retries) ==
    IF genout # NoneV
    THEN [done |-> TRUE, content |-> genout[1], attempt |-> 0]
    ELSE IF attempt + 1 >= max_retries
    THEN [done |-> FALSE, content |-> <<>>, attempt |-> attempt]
    ELSE [done |-> FALSE, content |-> <<>>, attempt |-> attempt + 1]

\* _get_agent_response, lines 131-136, after attempt number attempt + 1 ended
\* with genout: the turn is done with a content (the reply, or the sentinel
\* once range(max_retries) is used up), or the loop goes on.
AttemptResult(genout, attempt, agent_key, max_retries) ==
    IF genout # NoneV
    THEN [done |-> TRUE, content |-> genout[1], attempt |-> 0]
    ELSE IF attempt + 1 >= max_retries
    THEN [done |-> TRUE, content |-> RetrySentinel(agent_key, max_retries), attempt |-> 0]
    ELSE [done |-> FALSE, content |-> <<>>, attempt |-> attempt + 1]

\* A seed turn with a lower-case speaker.
UserTurnLowerCase(question) == [speaker |-> "user", content |-> question]

UserTurn(question) == [speaker |-> "User", content |-> question]

DebateTurn(agent_key, content, round_idx) ==
    [speaker |-> Name(agent_key), content |-> content, round |-> round_idx]

\* A summary turn that carries a round number.
SummaryTurnWithRound(content) ==
    [speaker |-> "Summary", content |-> content, round |-> 0]

SummaryTurn(content) == [speaker |-> "Summary", content |-> content]

\* A frame that reports a missing summary as an error of the run.
FrameSummaryError(question, history, summary, status) ==
    [question |-> question, summary |-> summary,
     error |-> IF status = "completed" /\ summary = NoneV
               THEN Some(<<"summary failed">>) ELSE NoneV,
     status |-> status, hlen |-> Len(history)]

\* A yielded frame.  Its "history" is the generator's own list object, not a
\* copy: FrameHistory reads it; hlen is the length the list had at the yield.
Frame(question, history, summary, status) ==
    [question |-> question, summary |-> summary, error |-> NoneV,
     status |-> status, hlen |-> Len(history)]

FrameHistory(i) == gen.history

\* A consumer that iterates stream_debate itself (cli, web, api).
StreamCaller == [kind |-> "stream", last_result |-> NoneV, returned |-> FALSE, pulls |-> 0]

\* run_debate before its loop: last_result = {} (line 69).
BatchCaller == [kind |-> "batch", last_result |-> NoneV, returned |-> FALSE, pulls |-> 0]

\* A loop body that keeps the first result.
LoopBodyKeepFirst(last_result, result) ==
    IF last_result = NoneV THEN Some(result) ELSE last_result

\* run_debate's loop body (line 71): last_result = result.
LoopBody(last_result, result) == Some(result)

\* What a step of the generator does to its caller.  run_debate runs its
\* loop body on a yielded frame and returns last_result when the generator is
\* exhausted (lines 70-72); a streaming consumer keeps no such state.
Consume(c, before, after, pc) ==
    IF c.kind # "batch" THEN c
    ELSE [c EXCEPT !.last_result = IF Len(after) > Len(before)
                                   THEN LoopBody(@, after[Len(after)])
                                   ELSE @,
                   !.returned = (pc = "done")]

\* The consumer asks the generator for its next frame (next(gen), as the
\* for loops over the generator do); pulls counts the requests of the run.
Pull(c) == [c EXCEPT !.pulls = @ + 1]

GenIdle ==
    [pc |-> "idle", question |-> <<>>, rounds |-> NoneV, enable_summary |-> NoneV,
     history |-> <<>>, round_idx |-> 0, order |-> <<>>, attempt |-> 0,
     summary_text |-> NoneV, first |-> TRUE]

\* A generator of stream_debate with what belongs to it alone: its locals
\* (question, rounds, history, loop position), the frames it has yielded,
\* and its consumer's record of the run.
Stream(g, fr, lc, rs, c) ==
    [gen |-> g, frames |-> fr, lastcall |-> lc, runs |-> rs, caller |-> c]

\* No second generator was obtained, or it was not advanced yet.
NoStream == Stream(GenIdle, <<>>, NoneV, <<>>, StreamCaller)

\* rounds = rounds or self.config.default_rounds
ResolveRounds(arg, cfg) ==
    IF arg = NoneV \/ arg[1] = 0 THEN cfg.default_rounds ELSE arg[1]

\* enable_summary = self.config.enable_summary if enable_summary is None else enable_summary
ResolveSummary(arg, cfg) ==
    IF arg = NoneV THEN cfg.enable_summary ELSE arg[1]

\* memory.add_entry(key, value, source) with its trailing _save, as the
\* orchestrator and the personas call it: the store, the file and the call.
MemAdd(m, f, key, value, source, t, save) ==
    LET m2 == [m EXCEPT !.entries = AddEntries(m, key, value, source, t)]
    IN [mem   |-> m2,
        file  |-> IF m.auto_save THEN SaveFile(m2, f, save) ELSE f,
        memop |-> AddOp(key, value, source, m.entries)]

MemSame(m, f, op) == [mem |-> m, file |-> f, memop |-> op]

\* A reply call that is handed the last turn only.
ReplyArgsLastTurn(g) ==
    [question |-> g.question, history |-> <<g.history[Len(g.history)]>>]

\* The arguments of agent.generate_response(question, history, self.memory)
\* (lines 94, 111, 133): the run's question and its transcript list.
ReplyArgs(g) == [question |-> g.question, history |-> g.history]

\* A persona that records the tool result once the generation call returned.
AristotleReplyWriteAfter(tool, history, m, f, op, t, toolout, genout, save) ==
    IF tool # NoneV /\ genout # NoneV
    THEN MemAdd(m, f, <<"tool_", tool[1], "_", ToString(Len(history))>>,
                ToolResult(tool[1], toolout), Name("aristotle"), t, save)
    ELSE IF tool = NoneV /\ genout # NoneV /\ genout[1] # <<>>
    THEN MemAdd(m, f, <<"aristotle_insight_", ToString(Len(history))>>,
                genout[1], Name("aristotle"), t, save)
    ELSE MemSame(m, f, op)

\* A persona that numbers its tool keys by the size of the store.
AristotleReplyKeyBySize(tool, history, m, f, op, t, toolout, genout, save) ==
    IF tool # NoneV
    THEN MemAdd(m, f, <<"tool_", tool[1], "_", ToString(Len(m.entries))>>,
                ToolResult(tool[1], toolout), Name("aristotle"), t, save)
    ELSE IF genout # NoneV /\ genout[1] # <<>>
    THEN MemAdd(m, f, <<"aristotle_insight_", ToString(Len(history))>>,
                genout[1], Name("aristotle"), t, save)
    ELSE MemSame(m, f, op)

\* AristotleAgent.generate_response, after the tool decision `tool` (lines
\* 119-121).  toolout is what the tool layer returns, genout the generation
\* call's outcome (NoneV: it raises; Some(text): the extracted response).
\* The result carries the memory effects.
AristotleReply(tool, history, m, f, op, t, toolout, genout, save) ==
    IF tool # NoneV
    THEN MemAdd(m, f, <<"tool_", tool[1], "_", ToString(Len(history))>>,
                ToolResult(tool[1], toolout), Name("aristotle"), t, save)
    ELSE IF genout # NoneV /\ genout[1] # <<>>
    THEN MemAdd(m, f, <<"aristotle_insight_", ToString(Len(history))>>,
                genout[1], Name("aristotle"), t, save)
    ELSE MemSame(m, f, op)

\* Loops that run one round short.
RECURSIVE NextTurnOneShort(_, _, _, _, _)
NextTurnOneShort(round_idx, order, rounds, r, orders) ==
    IF order # <<>>
    THEN [more |-> TRUE, round_idx |-> round_idx, order |-> order, rng |-> r,
          orders |-> orders]
    ELSE IF round_idx + 1 < rounds
    THEN LET o == AgentOrder(agents, config, r)
         IN NextTurnOneShort(round_idx + 1, o.order, rounds, o.rng,
                             Append(orders, o.order))
    ELSE [more |-> FALSE, round_idx |-> round_idx, order |-> order, rng |-> r,
          orders |-> orders]

\* The for loops of stream_debate, from the end of a turn to the next turn:
\* the agent loop goes on, or the next round starts with a new order.
RECURSIVE NextTurn(_, _, _, _, _)
NextTurn(round_idx, order, rounds, r, orders) ==
    IF order # <<>>
    THEN [more |-> TRUE, round_idx |-> round_idx, order |-> order, rng |-> r,
          orders |-> orders]
    ELSE IF round_idx < rounds
    THEN LET o == AgentOrder(agents, config, r)
         IN NextTurn(round_idx + 1, o.order, rounds, o.rng, Append(orders, o.order))
    ELSE [more |-> FALSE, round_idx |-> round_idx, order |-> order, rng |-> r,
          orders |-> orders]

(***************************************************************************)
(* Actions on a MemoryStore.                                               *)
(***************************************************************************)
\* MemoryStore(persist_path, auto_save, max_entries): a store is built (over
\* the durable file an earlier store may have left).
Construct(has_path, auto_save, max_entries) ==
    /\ nops < MaxOps
    /\ mem' = NewStore(has_path, auto_save, max_entries, file)
    /\ memop' = MemOp("init", NoneV, <<>>)
    /\ nops' = nops + 1
    /\ UNCHANGED <<file, now>>
    /\ UNCHANGED <<orchvars, probe>>

\* An add_entry that undoes the insertion when the file cannot be written.
AddRollsBack(key, value, source, outcome) ==
    /\ nops < MaxOps
    /\ LET es == AddEntries(mem, key, value, source, now)
           m2 == [mem EXCEPT !.entries = es]
       IN /\ mem' = IF mem.auto_save /\ mem.has_path /\ outcome # "ok" THEN mem ELSE m2
          /\ file' = IF mem.auto_save THEN SaveFile(m2, file, outcome) ELSE file
    /\ memop' = AddOp(key, value, source, mem.entries)
    /\ nops' = nops + 1
    /\ UNCHANGED now
    /\ UNCHANGED <<orchvars, probe>>

\* store.add_entry(key, value, source)
Add(key, value, source, outcome) ==
    /\ nops < MaxOps
    /\ LET es == AddEntries(mem, key, value, source, now)
           m2 == [mem EXCEPT !.entries = es]
       IN /\ mem' = m2
          /\ file' = IF mem.auto_save THEN SaveFile(m2, file, outcome) ELSE file
    /\ memop' = AddOp(key, value, source, mem.entries)
    /\ nops' = nops + 1
    /\ UNCHANGED now
    /\ UNCHANGED <<orchvars, probe>>

\* store.clear()
Clear(outcome) ==
    /\ nops < MaxOps
    /\ LET m2 == [mem EXCEPT !.entries = <<>>]
       IN /\ mem' = m2
          /\ file' = IF mem.auto_save THEN SaveFile(m2, file, outcome) ELSE file
    /\ memop' = MemOp("clear", NoneV, mem.entries)
    /\ nops' = nops + 1
    /\ UNCHANGED now
    /\ UNCHANGED <<orchvars, probe>>

\* The wall clock moves between two calls: forward, or back (datetime.now()
\* is naive local time, which steps back on a clock adjustment).
ClockMoves ==
    /\ \E t \in 0..MaxClock : t # now /\ now' = t
    /\ UNCHANGED <<mem, file, memop, nops>>
    /\ UNCHANGED <<orchvars, probe>>

InitMem ==
    /\ file = FileMissing
    /\ now = 0
    /\ \E hp \in BOOLEAN, as \in BOOLEAN, me \in 1..MaxEntries :
         mem = NewStore(hp, as, me, file)
    /\ memop = MemOp("init", NoneV, <<>>)
    /\ nops = 0
    /\ config = [default_rounds |-> 1, enable_summary |-> TRUE, random_seed |-> NoneV,
                 max_retries |-> 2, random_order |-> TRUE, personas |-> {}]
    /\ agents = {}
    /\ tools = FALSE
    /\ rng = 0
    /\ gen = GenIdle
    /\ frames = <<>>
    /\ lastcall = NoneV
    /\ runs = <<>>
    /\ caller = StreamCaller
    /\ other = NoStream
    /\ probe = ProbeIdle

NextMem ==
    \/ \E hp \in BOOLEAN, as \in BOOLEAN, me \in 1..MaxEntries : Construct(hp, as, me)
    \/ \E k \in Keys, v \in Values, o \in SaveOutcomes : Add(k, v, "system", o)
    \/ \E o \in SaveOutcomes : Clear(o)
    \/ ClockMoves

SpecMem == InitMem /\ [][NextMem]_vars

\* The same store on a disk that takes every write.
NextDurable ==
    \/ \E hp \in BOOLEAN, as \in BOOLEAN, me \in 1..MaxEntries : Construct(hp, as, me)
    \/ \E k \in Keys, v \in Values : Add(k, v, "system", "ok")
    \/ Clear("ok")
    \/ ClockMoves

SpecDurable == InitMem /\ [][NextDurable]_vars

\* The file a store of max_entries 2 left after two adds.
SavedFile ==
    FileOf(<<MemoryEntry(<<"k1">>, <<"v1">>, 0, "system"),
             MemoryEntry(<<"k2">>, <<"v1">>, 0, "system")>>)

\* A later session: a store is constructed over the file an earlier one left.
InitReload ==
    /\ file = SavedFile
    /\ now \in 0..MaxClock
    /\ \E as \in BOOLEAN, me \in 1..MaxEntries : mem = NewStore(TRUE, as, me, file)
    /\ memop = MemOp("init", NoneV, <<>>)
    /\ nops = 0
    /\ config = [default_rounds |-> 1, enable_summary |-> TRUE, random_seed |-> NoneV,
                 max_retries |-> 2, random_order |-> TRUE, personas |-> {}]
    /\ agents = {}
    /\ tools = FALSE
    /\ rng = 0
    /\ gen = GenIdle
    /\ frames = <<>>
    /\ lastcall = NoneV
    /\ runs = <<>>
    /\ caller = StreamCaller
    /\ other = NoStream
    /\ probe = ProbeIdle

SpecReload == InitReload /\ [][NextMem]_vars

(***************************************************************************)
(* The summarizer's post-processing applied to a raw reply.                *)
(***************************************************************************)
MaxPieces == 6

\* The pieces raw replies are put together from: text, a blank, a line
\* break, and the persona prefix.
Pieces == {<<"a">>, <<" ">>, <<"\n">>, <<"S", "u", "m", "m", "a", "r", "y", ":">>}

RECURSIVE RawsOf(_)
RawsOf(n) ==
    IF n = 0 THEN {<<>>}
    ELSE {r \o p : r \in RawsOf(n - 1), p \in Pieces}

\* Replies that begin with the bracketed prefix.
BracketRaws ==
    {<<"[", "S", "u", "m", "m", "a", "r", "y", "]", " ", "a", "\n", "\n", "a">>,
     <<"[", "S", "u", "m", "m", "a", "r", "y", "]", "\n", "a">>}

Raws == BracketRaws \cup UNION {RawsOf(n) : n \in 0..MaxPieces}

\* agent.extract_response(raw) on the SummaryAgent, raw being the text the
\* generation call returned.
ExtractResponse ==
    /\ probe.op = "raw"
    /\ probe' = [op |-> "extract", raw |-> probe.raw,
                 response |-> ExtractSummary(probe.raw)]
    /\ UNCHANGED <<memvars, orchvars>>

\* The generation call returned some raw reply.
InitSummary ==
    /\ probe \in {[op |-> "raw", raw |-> r] : r \in Raws}
    /\ file = FileMissing
    /\ now = 0
    /\ mem = NewStore(FALSE, FALSE, MaxEntries, file)
    /\ memop = MemOp("init", NoneV, <<>>)
    /\ nops = 0
    /\ config = [default_rounds |-> 1, enable_summary |-> TRUE, random_seed |-> NoneV,
                 max_retries |-> 2, random_order |-> FALSE, personas |-> {"summary"}]
    /\ agents = InitAgents(config.personas)
    /\ tools = FALSE
    /\ rng = 0
    /\ gen = GenIdle
    /\ frames = <<>>
    /\ lastcall = NoneV
    /\ runs = <<>>
    /\ caller = StreamCaller
    /\ other = NoStream

NextSummary == ExtractResponse

SpecSummary == InitSummary /\ [][NextSummary]_vars

(***************************************************************************)
(* The queries of a MemoryStore: entries are added, then one query is made. *)
(***************************************************************************)
MaxLimit == 3

QueryKeys == {<<"A", "b">>, <<"b", "c">>, <<"x">>}

QueryValues == {<<"B", "a">>, <<"y">>}

Queries == {<<>>, <<"b">>, <<"a", "B">>, <<"B", "A">>, <<"z">>}

\* store.search(query, limit), as DebateAPI.search_memory calls it.
SearchQuery(query, limit) ==
    /\ probe = ProbeIdle
    /\ probe' = [op |-> "search", query |-> query, limit |-> limit,
                 result |-> Search(mem, query, limit)]
    /\ UNCHANGED <<memvars, orchvars>>

\* store.format_for_prompt(limit)
Render(limit) ==
    /\ probe = ProbeIdle
    /\ probe' = [op |-> "render", limit |-> limit,
                 text |-> FormatForPrompt(mem, limit)]
    /\ UNCHANGED <<memvars, orchvars>>

\* A store without a durable file, of every capacity up to the bound.
InitQuery ==
    /\ InitMem
    /\ ~mem.has_path
    /\ mem.auto_save

NextQuery ==
    \/ probe = ProbeIdle /\ \E k \in QueryKeys, v \in QueryValues : Add(k, v, "system", "ok")
    \/ probe = ProbeIdle /\ ClockMoves
    \/ \E q \in Queries, n \in 0..MaxLimit : SearchQuery(q, n)
    \/ \E n \in 0..MaxLimit : Render(n)

SpecQuery == InitQuery /\ [][NextQuery]_vars

(***************************************************************************)
(* Actions of one orchestrator: a run of stream_debate, step by step.  The *)
(* consumer drives the generator (Start, Resume); each external generation *)
(* call is a step of its own (Attempt, Summarize).                         *)
(***************************************************************************)
Questions ==
    {<<>>, <<" ">>, <<" ", "h", "i">>, <<"2", "+", "3", " ">>}

RoundsArgs == {NoneV} \cup {Some(n) : n \in 0..MaxRounds}

SummaryArgs == {NoneV, Some(TRUE), Some(FALSE)}

GenOutcomes == {NoneV} \cup {Some(t) : t \in Replies}

\* The outcomes of a generation call that returns.
Returned == {Some(t) : t \in Replies}

\* The outcomes a _save can have, where one is made, among `saves`.
SaveChoices(m, saves) == IF m.auto_save /\ m.has_path THEN saves ELSE {"ok"}

CurrentRun == runs[Len(runs)]

\* What is kept of a run for comparing runs: whether it is the first run of
\* its orchestrator, the arguments of the call, the resolved rounds, the
\* order drawn in each round, the outcome of the reply call that ended
\* each turn and of the summary call (NoneV: it raised), and the number of
\* generate_response calls made to the summarizer.
RunRecord(g, rounds) ==
    [first |-> g.first, question |-> g.question, rounds_arg |-> g.rounds,
     summary_arg |-> g.enable_summary, rounds |-> rounds, orders |-> <<>>,
     outs |-> <<>>, completed |-> FALSE, summary_calls |-> 0]

RunOutcome(rs, out) == [rs EXCEPT ![Len(rs)].outs = Append(@, out)]

\* One more generate_response call to the summarizer in the current run
\* (line 111).
SummaryCalled(rs) == [rs EXCEPT ![Len(rs)].summary_calls = @ + 1]

\* orchestrator.stream_debate(question, rounds, enable_summary): a generator
\* is made; nothing of its body runs before the first next().
Call(question, rounds, enable_summary) ==
    /\ gen.pc = "idle"
    /\ gen' = [gen EXCEPT !.pc = "created", !.question = question,
                          !.rounds = rounds, !.enable_summary = enable_summary]
    /\ frames' = <<>>
    /\ lastcall' = NoneV
    /\ caller' = StreamCaller
    /\ UNCHANGED <<probe, other, config, agents, tools, rng, runs>>
    /\ UNCHANGED memvars

\* A further stream_debate call on the same orchestrator, after a run ended.
CallAgain(question, rounds, enable_summary) ==
    /\ gen.pc \in {"done", "raised"}
    /\ Len(runs) < MaxRuns
    /\ gen' = [GenIdle EXCEPT !.pc = "created", !.question = question,
                              !.rounds = rounds, !.enable_summary = enable_summary,
                              !.first = FALSE]
    /\ frames' = <<>>
    /\ lastcall' = NoneV
    /\ caller' = StreamCaller
    /\ UNCHANGED <<probe, other, config, agents, tools, rng, runs>>
    /\ UNCHANGED memvars

\* orchestrator.run_debate(question, rounds, enable_summary), lines 68-69:
\* the generator is made and run_debate is about to iterate it.
RunDebate(question, rounds, enable_summary) ==
    /\ gen.pc = "idle"
    /\ gen' = [gen EXCEPT !.pc = "created", !.question = question,
                          !.rounds = rounds, !.enable_summary = enable_summary]
    /\ frames' = <<>>
    /\ lastcall' = NoneV
    /\ caller' = BatchCaller
    /\ UNCHANGED <<probe, other, config, agents, tools, rng, runs>>
    /\ UNCHANGED memvars

\* DebateOrchestrator(config_manager) again: a new orchestrator over the same
\* configuration (a new MemoryStore over the same file, the source seeded).
Reconstruct ==
    /\ gen.pc \in {"done", "raised"}
    /\ Len(runs) < MaxRuns
    /\ mem' = NewStore(mem.has_path, mem.auto_save, mem.max_entries, file)
    /\ memop' = MemOp("init", NoneV, <<>>)
    /\ rng' = SeedAtConstruction(config, rng)
    /\ gen' = GenIdle
    /\ frames' = <<>>
    /\ lastcall' = NoneV
    /\ caller' = StreamCaller
    /\ UNCHANGED <<probe, other, config, agents, tools, runs, file, now, nops>>

\* The first next(): lines 76-89.  An empty question raises before anything
\* else is done; otherwise the transcript is seeded, the question recorded
\* in memory and the started frame yielded.  `saves` are the outcomes the
\* write of the durable file may have.
Start(saves) ==
    /\ gen.pc = "created"
    /\ IF IsEmptyText(gen.question)
       THEN /\ gen' = [gen EXCEPT !.pc = "raised"]
            /\ UNCHANGED <<mem, file, memop, frames, runs>>
       ELSE LET question == ensure_non_empty(gen.question)
                rounds   == ResolveRounds(gen.rounds, config)
                summary  == ResolveSummary(gen.enable_summary, config)
                history  == <<UserTurn(question)>>
            IN /\ \E save \in SaveChoices(mem, saves) :
                    LET w == MemAdd(mem, file, <<"initial_question">>, question,
                                    "user", now, save)
                    IN mem' = w.mem /\ file' = w.file /\ memop' = w.memop
               /\ gen' = [gen EXCEPT !.pc = "suspended", !.question = question,
                                     !.rounds = Some(rounds),
                                     !.enable_summary = Some(summary),
                                     !.history = history]
               /\ frames' = <<Frame(question, history, NoneV, "started")>>
               /\ runs' = Append(runs, RunRecord(gen, rounds))
    /\ caller' = Consume(Pull(caller), frames, frames', gen'.pc)
    /\ UNCHANGED <<probe, other, config, agents, tools, rng, lastcall, now, nops>>

\* A producer that does not wait at the yield while agents remain in the
\* round.
TurnDoneEager(g, content) ==
    LET history == Append(g.history, DebateTurn(Head(g.order), content, g.round_idx))
    IN /\ gen' = [g EXCEPT !.pc = IF Tail(g.order) # <<>> THEN "replying"
                                  ELSE "suspended",
                           !.history = history,
                           !.order = Tail(g.order), !.attempt = 0]
       /\ frames' = Append(frames, Frame(g.question, history, NoneV, "debating"))

\* The turn of the agent at the head of the order ends with `content`: the
\* turn is appended and a debating frame yielded (lines 95-106).
TurnDone(g, content) ==
    LET history == Append(g.history, DebateTurn(Head(g.order), content, g.round_idx))
    IN /\ gen' = [g EXCEPT !.pc = "suspended", !.history = history,
                           !.order = Tail(g.order), !.attempt = 0]
       /\ frames' = Append(frames, Frame(g.question, history, NoneV, "debating"))

\* A later next(): the generator runs on from its yield to the next external
\* call or the next yield.
Resume ==
    /\ gen.pc = "suspended"
    /\ IF frames[Len(frames)].status = "completed"
       THEN /\ gen' = [gen EXCEPT !.pc = "done"]
            /\ UNCHANGED <<frames, rng, runs>>
       ELSE LET nt == NextTurn(gen.round_idx, gen.order, gen.rounds[1], rng,
                               CurrentRun.orders)
                g  == [gen EXCEPT !.round_idx = nt.round_idx, !.order = nt.order]
                done == ~nt.more /\ ~(gen.enable_summary[1] /\ "summary" \in agents)
            IN /\ rng' = nt.rng
               /\ runs' = [runs EXCEPT ![Len(runs)].orders = nt.orders,
                                       ![Len(runs)].completed = done]
               /\ IF nt.more
                  THEN IF config.max_retries <= 0
                       THEN TurnDone(g, RetrySentinel(Head(g.order), config.max_retries))
                       ELSE /\ gen' = [g EXCEPT !.pc = "replying", !.attempt = 0]
                            /\ UNCHANGED frames
                  ELSE IF gen.enable_summary[1] /\ "summary" \in agents
                       THEN /\ gen' = [g EXCEPT !.pc = "summarizing"]
                            /\ UNCHANGED frames
                       ELSE /\ gen' = g
                            /\ frames' = Append(frames, Frame(g.question, g.history,
                                                              NoneV, "completed"))
    /\ caller' = Consume(Pull(caller), frames, frames', gen'.pc)
    /\ UNCHANGED <<probe, other, config, agents, tools, lastcall>>
    /\ UNCHANGED memvars

\* One pass of the retry loop of _get_agent_response (lines 131-136): the
\* agent's generate_response is called once.  `toolouts` and `saves` are the
\* outcomes the tool call and the write of the durable file may have,
\* `genouts` those of the generation call.
Attempt(genouts, toolouts, saves) ==
    /\ gen.pc = "replying"
    /\ \E agent_key \in {Head(gen.order)} :
       \E args \in {ReplyArgs(gen)} :
       \E tool \in {IF agent_key = "aristotle"
                    THEN ToolChosen(tools, args.question, args.history)
                    ELSE NoneV} :
       \E query \in {IF tool # NoneV
                     THEN Some(ToolQuery(tool[1], args.question))
                     ELSE NoneV} :
       \E genout \in genouts :
       \E toolout \in IF tool # NoneV THEN toolouts ELSE {"ok"} :
       \E save \in IF agent_key = "aristotle" THEN SaveChoices(mem, saves) ELSE {"ok"} :
       \E w \in {IF agent_key = "aristotle"
                 THEN AristotleReply(tool, args.history, mem, file, memop, now,
                                     toolout, genout, save)
                 ELSE MemSame(mem, file, memop)} :
       \E res \in {AttemptResult(genout, gen.attempt, agent_key, config.max_retries)} :
          /\ mem' = w.mem /\ file' = w.file /\ memop' = w.memop
          /\ lastcall' = Some([agent |-> agent_key, attempt |-> gen.attempt + 1,
                               out |-> genout, tool |-> tool,
                               query |-> query,
                               history |-> args.history])
          /\ IF res.done
             THEN /\ TurnDone(gen, res.content)
                  /\ runs' = RunOutcome(runs, genout)
             ELSE /\ gen' = [gen EXCEPT !.attempt = res.attempt]
                  /\ UNCHANGED <<frames, runs>>
    /\ caller' = Consume(caller, frames, frames', gen'.pc)
    /\ UNCHANGED <<probe, other, config, agents, tools, rng, now, nops>>

\* Lines 108-122: the summarizer's reply, then the completed frame.
Summarize(genouts) ==
    /\ gen.pc = "summarizing"
    /\ \E genout \in genouts :
         LET history == IF genout # NoneV
                        THEN Append(gen.history, SummaryTurn(genout[1]))
                        ELSE gen.history
         IN /\ gen' = [gen EXCEPT !.pc = "suspended", !.history = history,
                                  !.summary_text = genout]
            /\ frames' = Append(frames, Frame(gen.question, history, genout, "completed"))
            /\ lastcall' = Some([agent |-> "summary", attempt |-> 1, out |-> genout,
                                 tool |-> NoneV, query |-> NoneV,
                                 history |-> ReplyArgs(gen).history])
            /\ runs' = [RunOutcome(SummaryCalled(runs), genout)
                            EXCEPT ![Len(runs)].completed = TRUE]
    /\ caller' = Consume(caller, frames, frames', gen'.pc)
    /\ UNCHANGED <<probe, other, config, agents, tools, rng>>
    /\ UNCHANGED memvars

\* An orchestrator that keeps the transcript on itself: the generator that
\* is advanced next goes on with the list the other one left.
SwitchSharedTranscript ==
    /\ gen.pc \notin {"replying", "summarizing"}
    /\ gen' = [other.gen EXCEPT !.history = gen.history]
    /\ frames' = other.frames
    /\ lastcall' = other.lastcall
    /\ runs' = other.runs
    /\ caller' = other.caller
    /\ other' = Stream(gen, frames, lastcall, runs, caller)
    /\ UNCHANGED <<probe, config, agents, tools, rng>>
    /\ UNCHANGED memvars

\* The consumer turns to the other generator of the orchestrator: the one
\* advanced so far rests at its yield (or was not started, or is over) with
\* its locals, and the next next() goes to the other one.  The orchestrator
\* (memory, agents, configuration, random source) is the same for both.
Switch ==
    /\ gen.pc \notin {"replying", "summarizing"}
    /\ gen' = other.gen
    /\ frames' = other.frames
    /\ lastcall' = other.lastcall
    /\ runs' = other.runs
    /\ caller' = other.caller
    /\ other' = Stream(gen, frames, lastcall, runs, caller)
    /\ UNCHANGED <<probe, config, agents, tools, rng>>
    /\ UNCHANGED memvars

(***************************************************************************)
(* Specifications.                                                         *)
(***************************************************************************)
\* The orchestrator configurations explored: the provider's defaults for
\* default_rounds and enable_summary (config.py, lines 137-138), every
\* max_retries up to the bound, fixed order or seeded random order.
Configs ==
    {[default_rounds |-> 1, enable_summary |-> TRUE, random_seed |-> o[1],
      max_retries |-> n, random_order |-> o[2]] :
        o \in {<<NoneV, FALSE>>, <<Some(1), TRUE>>}, n \in 0..MaxRetries}

\* The persona keys the provider has a config for: every persona of the
\* factory, or some missing (and one the factory does not know).
AgentSets == {AllAgents, {"socrates", "aristotle", "kant"}, {"plato", "summary"}, {}}

\* The provider's configuration: an OrchestratorConfig and the persona keys
\* get_agent_config knows.
WithPersonas(c, p) ==
    [default_rounds |-> c.default_rounds, enable_summary |-> c.enable_summary,
     random_seed |-> c.random_seed, max_retries |-> c.max_retries,
     random_order |-> c.random_order, personas |-> p]

\* The state after DebateOrchestrator.__init__.
InitOrch(cfgs, registries, toolflags, entropy) ==
    /\ config \in {WithPersonas(c, p) : c \in cfgs, p \in registries}
    /\ agents = InitAgents(config.personas)
    /\ tools \in toolflags
    /\ rng \in {SeedAtConstruction(config, r) : r \in entropy}
    /\ file = FileMissing
    /\ now = 0
    /\ mem = NewStore(TRUE, TRUE, MaxEntries, file)
    /\ memop = MemOp("init", NoneV, <<>>)
    /\ nops = 0
    /\ gen = GenIdle
    /\ frames = <<>>
    /\ lastcall = NoneV
    /\ runs = <<>>
    /\ caller = StreamCaller
    /\ other = NoStream
    /\ probe = ProbeIdle

Init == InitOrch(Configs, AgentSets, BOOLEAN, {0})

Next ==
    \/ \E q \in Questions, r \in RoundsArgs, s \in SummaryArgs : Call(q, r, s)
    \/ Start({"ok"})
    \/ Resume
    \/ Attempt(GenOutcomes, {"ok"}, {"ok"})
    \/ Summarize(GenOutcomes)

\* One run of a freshly constructed orchestrator, the tool layer and the
\* disk working; SpecFaulty is the run where they fail as well.
Spec == Init /\ [][Next]_vars

\* Fixed order, tools enabled; two debating personas (the tool-using one
\* among them) and the summarizer, or one persona and no summarizer.
InitFaulty ==
    InitOrch({c \in Configs : ~c.random_order},
             {{"plato", "aristotle", "summary"}, {"socrates"}}, {TRUE}, {0})

\* Runs of one round (the configured default) and of two, on a blank
\* question, a plain one and two that make aristotle use a tool (the
\* calculator, the web search), with the configured summary or none.
FaultyRounds == {NoneV, Some(2)}

FaultyQuestions ==
    {<<" ">>, <<" ", "h", "i">>, <<"2", "+", "3", " ">>, <<"f", "i", "n", "d">>}

FaultySummary == {NoneV, Some(FALSE)}

NextFaulty ==
    \/ \E q \in FaultyQuestions, r \in FaultyRounds, s \in FaultySummary : Call(q, r, s)
    \/ Start(SaveOutcomes)
    \/ Resume
    \/ Attempt(GenOutcomes, ToolOutcomes, SaveOutcomes)
    \/ Summarize(GenOutcomes)

\* The consumer goes on pulling frames, and every external call returns or
\* raises: each step of a run that can be taken is eventually taken.
\* (At most one of the four is enabled in a state, by gen.pc.)
RunStep ==
    \/ Start(SaveOutcomes)
    \/ Resume
    \/ Attempt(GenOutcomes, ToolOutcomes, SaveOutcomes)
    \/ Summarize(GenOutcomes)

Fairness == WF_vars(RunStep)

SpecFaulty == InitFaulty /\ [][NextFaulty]_vars /\ Fairness

\* Seeded random order, one attempt per turn, two debating personas and the
\* summarizer (plato's configuration failed to load).
InitSeed ==
    InitOrch({c \in Configs : c.random_order /\ c.max_retries = 1},
             {{"socrates", "aristotle", "summary"}}, {FALSE}, {0})

SeedQuestions == {<<>>, <<" ">>, <<" ", "h", "i">>}

SeedRounds == {NoneV, Some(2)}

\* Runs one after the other: by the same orchestrator (CallAgain) or by a
\* new one built from the same configuration (Reconstruct, then Call).  A
\* debating reply returns or raises; the summarizer's returns.
NextSeed ==
    \/ \E q \in SeedQuestions, r \in SeedRounds : Call(q, r, NoneV)
    \/ \E q \in SeedQuestions, r \in SeedRounds : CallAgain(q, r, NoneV)
    \/ Reconstruct
    \/ Start({"ok"})
    \/ Resume
    \/ Attempt(GenOutcomes, {"ok"}, {"ok"})
    \/ Summarize(Returned)

SpecSeed == InitSeed /\ [][NextSeed]_vars

\* run_debate on a freshly constructed orchestrator without tools.
InitBatch == InitOrch(Configs, AgentSets, {FALSE}, {0})

NextBatch ==
    \/ \E q \in Questions, r \in RoundsArgs, s \in SummaryArgs : RunDebate(q, r, s)
    \/ Start({"ok"})
    \/ Resume
    \/ Attempt(GenOutcomes, {"ok"}, {"ok"})
    \/ Summarize(GenOutcomes)

SpecBatch == InitBatch /\ [][NextBatch]_vars

(***************************************************************************)
(* Two streams of one orchestrator, their frames consumed in any order.    *)
(***************************************************************************)
\* Seeded random order, one attempt per turn, two debating personas and the
\* summarizer.
InitStreams ==
    InitOrch({c \in Configs : c.random_order /\ c.max_retries = 1},
             {{"socrates", "aristotle", "summary"}}, {FALSE}, {0})

StreamQuestions == {<<"q", "1">>, <<"q", "2">>}

StreamRounds == {NoneV, Some(2)}

NextStreams ==
    \/ \E q \in StreamQuestions, r \in StreamRounds : Call(q, r, NoneV)
    \/ Switch
    \/ Start({"ok"})
    \/ Resume
    \/ Attempt(GenOutcomes, {"ok"}, {"ok"})
    \/ Summarize(GenOutcomes)

SpecStreams == InitStreams /\ [][NextStreams]_vars

(***************************************************************************)
(* The tool-using persona asked arithmetic questions.                      *)
(***************************************************************************)
MaxWords == 3

\* The words questions are put together from: a question opening, a
\* request, an expression with and without spaces, a number, text, a space.
Words ==
    {<<"W", "h", "a", "t", " ", "i", "s", " ">>,
     <<"C", "a", "l", "c", "u", "l", "a", "t", "e", " ">>,
     <<"5", " ", "+", " ", "3">>, <<"5", "+", "3">>, <<"1", "2">>,
     <<"x">>, <<" ">>}

RECURSIVE QuestionsOf(_)
QuestionsOf(n) ==
    IF n = 0 THEN {<<>>}
    ELSE {q \o w : q \in QuestionsOf(n - 1), w \in Words}

MathQuestions == UNION {QuestionsOf(n) : n \in 0..MaxWords}

\* Fixed order, one attempt per turn, tools enabled; the tool-using persona
\* and the summarizer.
InitMath ==
    InitOrch({c \in Configs : ~c.random_order /\ c.max_retries = 1},
             {{"aristotle", "summary"}}, {TRUE}, {0})

NextMath ==
    \/ \E q \in MathQuestions : Call(q, NoneV, NoneV)
    \/ Start({"ok"})
    \/ Resume
    \/ Attempt(GenOutcomes, ToolOutcomes, {"ok"})
    \/ Summarize(Returned)

SpecMath == InitMath /\ [][NextMath]_vars

(***************************************************************************)
(* The tool layer called directly: the classifier on a prompt, execute_tool *)
(* on a tool name.                                                         *)
(***************************************************************************)
MaxFragments == 2

\* The pieces prompts are put together from: an expression, a digit, a
\* search intent, a temporal word, a question word, and neutral text.
Fragments ==
    {<<"2", "+", "3">>, <<"4">>, <<"f", "i", "n", "d", " ">>,
     <<"n", "o", "w", " ">>, <<"H", "o", "w", " ">>, <<"x">>, <<" ">>,
     <<"E", "x", "p", "l", "a", "i", "n">>}

RECURSIVE PromptsOf(_)
PromptsOf(n) ==
    IF n = 0 THEN {<<>>}
    ELSE {p \o f : p \in PromptsOf(n - 1), f \in Fragments}

\* The prompts of tests/test_agents.py.
CalculatePrompt ==
    <<"C", "a", "l", "c", "u", "l", "a", "t", "e", " ", "5", " ",
       "+", " ", "3">>

SearchPrompt ==
    <<"S", "e", "a", "r", "c", "h", " ", "f", "o", "r", " ", "P",
       "l", "a", "t", "o", "'", "s", " ", "c", "a", "v", "e">>

ExplainPrompt ==
    <<"E", "x", "p", "l", "a", "i", "n", " ", "t", "h", "e", " ",
       "t", "h", "e", "o", "r", "y", " ", "o", "f", " ", "f",
       "o", "r", "m", "s">>

TimePrompt ==
    <<"W", "h", "a", "t", " ", "i", "s", " ", "t", "h", "e", " ",
       "c", "u", "r", "r", "e", "n", "t", " ", "t", "i", "m",
       "e", "?">>

NormalizationPrompt ==
    <<"C", "o", "u", "l", "d", " ", "y", "o", "u", " ", "c", "a",
       "l", "c", "u", "l", "a", "t", "e", " ", "1", "2", " ",
       "*", " ", "7", " ", "f", "o", "r", " ", "m", "e", "?">>

TestPrompts ==
    {CalculatePrompt, SearchPrompt, ExplainPrompt, TimePrompt, NormalizationPrompt}

Prompts == TestPrompts \cup UNION {PromptsOf(n) : n \in 0..MaxFragments}

\* The names execute_tool is called with: the registered ones and one more.
ToolNames == ToolRegistry \cup {"translate"}

\* agent._detect_tool_needed(prompt) on an AristotleAgent whose config has
\* tools_enabled = enabled.
Detect(prompt, enabled) ==
    /\ probe' = [op |-> "detect", prompt |-> prompt, enabled |-> enabled,
                 tool |-> DetectToolNeeded(enabled, prompt)]
    /\ UNCHANGED <<memvars, orchvars>>

\* execute_tool(tool_name, query)
Execute(tool_name, outcome) ==
    /\ probe' = [op |-> "execute", tool_name |-> tool_name, outcome |-> outcome,
                 result |-> ExecuteTool(tool_name, outcome)]
    /\ UNCHANGED <<memvars, orchvars>>

\* One orchestrator, idle throughout; the calls below do not touch it.
InitTools ==
    InitOrch({c \in Configs : ~c.random_order /\ c.max_retries = 0},
             {AllAgents}, {TRUE}, {0})

NextTools ==
    \/ \E p \in Prompts, e \in BOOLEAN : Detect(p, e)
    \/ \E n \in ToolNames, o \in ToolOutcomes : Execute(n, o)

SpecTools == InitTools /\ [][NextTools]_vars

(***************************************************************************)
(* Properties of the MemoryStore, under SpecMem.                           *)
(***************************************************************************)
StampsOf(es) == {<<es[i].key, es[i].timestamp>> : i \in 1..Len(es)}

EntriesOf(es) == {es[i] : i \in 1..Len(es)}

\* C5: in every reachable state of a MemoryStore (after construction, with
\* or without loading a durable file, and after any adds and clears) the
\* number of entries never exceeds max_entries.
C5_SizeWithinBound == Len(mem.entries) <= mem.max_entries

\* C6: when the store holds exactly max_entries entries and add is called
\* with a key that is not in the store, the size afterwards is max_entries,
\* exactly one of the entries present after the insertion (the old ones and
\* the new one) is gone, that one has the least timestamp among them, and
\* every other entry is as it was.
C6_AddAtCapacityEvictsOldest ==
    [][ ( /\ nops' = nops + 1
          /\ memop'.op = "add"
          /\ Len(mem.entries) = mem.max_entries
          /\ ~HasKey(mem.entries, memop'.key[1]) )
        => LET present == StampsOf(mem.entries) \cup {<<memop'.key[1], now>>}
               removed == present \ StampsOf(mem'.entries)
           IN /\ Len(mem'.entries) = mem.max_entries
              /\ StampsOf(mem'.entries) \subseteq present
              /\ Cardinality(removed) = 1
              /\ \A r \in removed : \A p \in present : r[2] <= p[2]
              /\ \A e \in EntriesOf(mem'.entries) :
                    e.key # memop'.key[1] => e \in EntriesOf(mem.entries)
      ]_vars

\* C6 witness: an add of a new key to a store that held exactly max_entries
\* entries, two of them at least, has returned.
C6_Witness ==
    /\ memop.op = "add"
    /\ memop.fresh
    /\ memop.size = mem.max_entries
    /\ memop.size >= 2
    /\ Len(mem.entries) = mem.max_entries

(***************************************************************************)
(* Properties of a run of stream_debate.                                   *)
(***************************************************************************)
LastFrame == frames[Len(frames)]

LastTurn == gen.history[Len(gen.history)]

\* The question is empty or whitespace only.
Blank(q) == \A i \in 1..Len(q) : q[i] \in {" ", "\t", "\n"}

\* The registered debating personas.
Personas == agents \cap {"socrates", "plato", "aristotle"}

Completed == frames # <<>> /\ LastFrame.status = "completed"

\* The sentinel of persona k after n attempts, as the claim spells it.
SentinelText(k, n) == <<"[Error: ", k, " failed after ", ToString(n), " attempts]">>

\* C1: for every non-empty question the frames of stream_debate are one
\* 'started' frame first, then zero or more 'debating' frames, then one
\* 'completed' frame last; nothing follows the completed frame (the run is
\* over only after it), no other status appears and every frame has
\* error = null.
C1_FrameSequence ==
    /\ \A i \in 1..Len(frames) :
         /\ frames[i].status \in {"started", "debating", "completed"}
         /\ frames[i].error = NoneV
         /\ frames[i].status = "started" <=> i = 1
         /\ frames[i].status = "completed" => i = Len(frames)
    /\ (gen.pc \notin {"idle", "created"} /\ ~Blank(gen.question))
          => (frames # <<>> /\ gen.pc # "raised")
    /\ gen.pc = "done" => Completed

\* C1 witness: a run is over after a started frame, debating frames and the
\* completed frame.
C1_Witness ==
    /\ gen.pc = "done"
    /\ Len(frames) >= 4
    /\ frames[2].status = "debating"
    /\ LastFrame.status = "completed"

\* C2: for a run called with rounds = R, R >= 1, and P registered debating
\* personas, the history of the completed frame without the seed turn and
\* the Summary turn (when there is one) has exactly R * P turns, each with a
\* round in 1..R.
C2_TurnCount ==
    (Completed /\ CurrentRun.rounds_arg # NoneV /\ CurrentRun.rounds_arg[1] >= 1)
       => LET R == CurrentRun.rounds_arg[1]
              h == FrameHistory(Len(frames))
              n == IF "round" \notin DOMAIN h[Len(h)] /\ h[Len(h)].speaker = "Summary"
                   THEN Len(h) - 1 ELSE Len(h)
          IN /\ h[1] = [speaker |-> "User", content |-> gen.question]
             /\ n - 1 = R * Cardinality(Personas)
             /\ \A i \in 2..n : /\ "round" \in DOMAIN h[i]
                                /\ h[i].round \in 1..R

\* C2 witness: a run of two rounds of three personas is completed.
C2_Witness ==
    /\ Completed
    /\ CurrentRun.rounds_arg = Some(2)
    /\ Cardinality(Personas) = 3
    /\ Len(gen.history) >= 7

\* The last reply call was attempt number max_retries of a debating persona
\* and it raised: every attempt of the turn has raised.
Exhausted ==
    /\ lastcall # NoneV
    /\ lastcall[1].agent # "summary"
    /\ lastcall[1].out = NoneV
    /\ lastcall[1].attempt = config.max_retries

\* C3: when every one of the max_retries attempts of a turn raises, the
\* turn's content is "[Error: {persona} failed after {max_retries} attempts]"
\* with that persona and max_retries, the turn is appended like a reply (the
\* persona's turn of the current round, yielded in a debating frame), and the
\* run still reaches the completed frame.
C3_RetrySentinel ==
    /\ [][ (/\ gen.pc = "replying" /\ gen' # gen
            /\ lastcall'[1].out = NoneV
            /\ lastcall'[1].attempt = config.max_retries)
           => /\ gen'.pc = "suspended"
              /\ gen'.history =
                    Append(gen.history,
                           [speaker |-> Name(Head(gen.order)),
                            content |-> SentinelText(Head(gen.order), config.max_retries),
                            round   |-> gen.round_idx])
              /\ frames' = Append(frames, [question |-> gen.question, summary |-> NoneV,
                                           error |-> NoneV, status |-> "debating",
                                           hlen |-> Len(gen'.history)])
         ]_vars
    /\ (Exhausted ~> Completed)

\* C3 witness: a run with two attempts per turn or more is completed with a
\* sentinel turn in its history.
C3_Witness ==
    /\ Completed
    /\ config.max_retries >= 2
    /\ \E i \in 2..Len(gen.history) :
          \E k \in Personas :
             gen.history[i].content = SentinelText(k, config.max_retries)

\* C4: in a turn the persona's reply is called sequentially, attempts 1, 2,
\* ... and at most max_retries of them; the first attempt that returns ends
\* the turn, its text is the turn's content, and no attempt follows it.
C4_RetryStopsAtSuccess ==
    [][ /\ (gen.pc # "replying" /\ gen'.pc = "replying") => gen'.attempt = 0
        /\ (gen.pc = "replying" /\ gen' # gen) =>
             /\ lastcall' # NoneV
             /\ lastcall'[1].agent = Head(gen.order)
             /\ lastcall'[1].attempt = gen.attempt + 1
             /\ lastcall'[1].attempt <= config.max_retries
             /\ lastcall'[1].out # NoneV =>
                  /\ gen'.pc = "suspended"
                  /\ gen'.history =
                        Append(gen.history,
                               [speaker |-> Name(Head(gen.order)),
                                content |-> lastcall'[1].out[1],
                                round   |-> gen.round_idx])
             /\ gen'.pc = "replying" =>
                  /\ lastcall'[1].out = NoneV
                  /\ gen'.attempt = gen.attempt + 1
                  /\ gen'.order = gen.order
                  /\ gen'.history = gen.history
      ]_vars

\* C4 witness: a turn has ended with the text the second attempt returned.
C4_Witness ==
    /\ gen.pc = "suspended"
    /\ lastcall # NoneV
    /\ lastcall[1].agent # "summary"
    /\ lastcall[1].attempt = 2
    /\ lastcall[1].out # NoneV
    /\ LastTurn.content = lastcall[1].out[1]

\* C7: stream_debate (and run_debate, which consumes it) called with an
\* empty or whitespace-only question raises: no frame is emitted, no reply
\* call is made, and the memory store and its durable file are as before.
C7_BlankQuestionRejected ==
    /\ []((gen.pc # "idle" /\ Blank(gen.question))
             => (gen.pc \in {"created", "raised"} /\ frames = <<>> /\ lastcall = NoneV))
    /\ [][ (gen.pc = "created" /\ Blank(gen.question) /\ gen' # gen)
             => (gen'.pc = "raised" /\ mem' = mem /\ file' = file) ]_vars

\* C7 witness: a call with a whitespace-only question has raised on an
\* orchestrator whose store and durable file hold entries.
C7_Witness ==
    /\ gen.pc = "raised"
    /\ gen.question # <<>>
    /\ mem.entries # <<>>
    /\ file.state = "ok"
    /\ file.data # <<>>

\* C8: after all rounds, when enable_summary resolves to true and a
\* summarizer is registered, the summarizer is called; if it returns, one
\* turn {speaker 'Summary', content = reply} without a round is appended as
\* the last turn and the completed frame's summary is that reply; if it
\* raises, no turn is appended, summary is null, error is null and the
\* status is completed.
C8_SummaryTurn ==
    /\ [](gen.pc = "summarizing" =>
            /\ gen.enable_summary = Some(TRUE)
            /\ "summary" \in agents
            /\ Len(gen.history) = 1 + gen.rounds[1] * Cardinality(Personas))
    /\ [][ /\ (Len(frames') > Len(frames) /\ frames'[Len(frames')].status = "completed"
                 /\ gen.enable_summary = Some(TRUE) /\ "summary" \in agents)
              => gen.pc = "summarizing"
           /\ (gen.pc = "summarizing" /\ gen' # gen) =>
                LET out == lastcall'[1].out
                    f   == frames'[Len(frames')]
                IN /\ lastcall'[1].agent = "summary"
                   /\ Len(frames') = Len(frames) + 1
                   /\ f.status = "completed"
                   /\ f.error = NoneV
                   /\ f.hlen = Len(gen'.history)
                   /\ IF out # NoneV
                      THEN /\ gen'.history =
                                 Append(gen.history,
                                        [speaker |-> "Summary", content |-> out[1]])
                           /\ f.summary = out
                      ELSE /\ gen'.history = gen.history
                           /\ f.summary = NoneV
         ]_vars

\* C8 witness: a run of two rounds is completed with the summarizer's reply
\* as its last turn and as the frame's summary.
C8_Witness ==
    /\ Completed
    /\ LastFrame.summary # NoneV
    /\ LastTurn = [speaker |-> "Summary", content |-> LastFrame.summary[1]]
    /\ gen.rounds = Some(2)

\* C9: provided every external generation, tool and file call returns or
\* raises, a run started with a non-empty question emits the completed
\* frame, whichever reply, summary, tool or persistence calls fail; only the
\* validation of the question makes a run raise.
C9_RunCompletes ==
    /\ [](gen.pc = "raised" => Blank(gen.question))
    /\ ((gen.pc = "created" /\ ~Blank(gen.question)) ~> Completed)

\* C9 witness: a run is completed although a turn's attempts all raised, the
\* summarizer raised and a write of the durable file failed half-way.
C9_Witness ==
    /\ Completed
    /\ lastcall # NoneV
    /\ lastcall[1].agent = "summary"
    /\ lastcall[1].out = NoneV
    /\ \E i \in 2..Len(gen.history) :
          \E k \in Personas :
             gen.history[i].content = SentinelText(k, config.max_retries)
    /\ file = FileCorrupt

SameInputs(a, b) ==
    /\ a.question = b.question
    /\ a.rounds_arg = b.rounds_arg
    /\ a.summary_arg = b.summary_arg
    /\ a.outs = b.outs

\* C10 as stated: with random_order and a fixed random_seed, any two
\* completed runs with identical inputs (question, rounds, enable_summary,
\* outcomes of the reply calls) have the same participant order in every
\* round, be they runs of two orchestrators constructed with that seed or
\* runs made one after the other by the same orchestrator.
C10_AllRunsAgree ==
    \A i \in 1..Len(runs) : \A j \in 1..Len(runs) :
       (runs[i].completed /\ runs[j].completed /\ SameInputs(runs[i], runs[j]))
          => runs[i].orders = runs[j].orders

\* C10 amended: with random_order and a fixed random_seed, two completed
\* runs with identical inputs have the same participant order in every
\* round when each is the first run of an orchestrator constructed with that
\* seed right before it.
C10_FirstRunsAgree ==
    \A i \in 1..Len(runs) : \A j \in 1..Len(runs) :
       (/\ runs[i].completed /\ runs[j].completed
        /\ runs[i].first /\ runs[j].first
        /\ SameInputs(runs[i], runs[j]))
          => runs[i].orders = runs[j].orders

\* C10 witness: two orchestrators constructed one after the other have each
\* completed their first run, of two rounds, with identical inputs.
C10_Witness ==
    \E i \in 1..Len(runs) : \E j \in 1..Len(runs) :
       /\ i < j
       /\ runs[i].completed /\ runs[j].completed
       /\ runs[i].first /\ runs[j].first
       /\ SameInputs(runs[i], runs[j])
       /\ Len(runs[i].orders) = 2

\* C11: run_debate(q, rounds, enable_summary) returns exactly the last frame
\* the stream_debate generator it iterates has yielded, the completed frame:
\* the same question, history, summary, error and status.
C11_BatchReturnsLastFrame ==
    caller.returned =>
       /\ Completed
       /\ caller.last_result = Some(LastFrame)
       /\ caller.last_result[1].status = "completed"
       /\ caller.last_result[1].question = gen.question
       /\ caller.last_result[1].summary = gen.summary_text
       /\ caller.last_result[1].error = NoneV
       /\ caller.last_result[1].hlen = Len(FrameHistory(Len(frames)))

\* C11 witness: run_debate has returned after a run of several turns with a
\* summary.
C11_Witness ==
    /\ caller.kind = "batch"
    /\ caller.returned
    /\ Len(frames) >= 4
    /\ LastFrame.summary # NoneV

\* C12: for every non-empty question the started frame is emitted before any
\* reply call is made, and at that moment its history is exactly one turn,
\* the seed {speaker 'User', content = question}.
C12_StartedBeforeReplies ==
    /\ lastcall # NoneV => frames # <<>>
    /\ frames # <<>> =>
         /\ frames[1].status = "started"
         /\ frames[1].hlen = 1
         /\ ~Blank(CurrentRun.question)
    /\ (Len(frames) = 1 /\ gen.pc = "suspended") =>
         /\ lastcall = NoneV
         /\ FrameHistory(1) = <<[speaker |-> "User", content |-> frames[1].question]>>
         /\ frames[1].question # <<>>
         /\ Contains(CurrentRun.question, frames[1].question)

\* C12 witness: the started frame of a question given with surrounding
\* whitespace has just been emitted.
C12_Witness ==
    /\ Len(frames) = 1
    /\ gen.pc = "suspended"
    /\ CurrentRun.question # frames[1].question

\* The history of frame i holds a Summary turn.
HasSummaryTurn(h) == \E k \in 1..Len(h) : h[k].speaker = "Summary"

\* C13: in the history of every frame of a run the first turn is the seed
\* User turn, every later turn has a round, except a Summary turn, which has
\* none and, when present, is the last turn, of the completed frame only.
C13_HistoryShape ==
    \A i \in 1..Len(frames) :
       LET h == FrameHistory(i)
       IN /\ h[1].speaker = "User" /\ "round" \notin DOMAIN h[1]
          /\ \A k \in 2..Len(h) :
                IF h[k].speaker = "Summary"
                THEN "round" \notin DOMAIN h[k] /\ k = Len(h)
                ELSE "round" \in DOMAIN h[k] /\ h[k].round \in 1..gen.rounds[1]
          /\ HasSummaryTurn(h) => frames[i].status = "completed"

\* The speakers of round r in history h, in order.
RoundSpeakers(h, r) ==
    LET turns == SelectSeq(h, LAMBDA t : "round" \in DOMAIN t /\ t.round = r)
    IN [k \in 1..Len(turns) |-> turns[k].speaker]

\* The display names of the registered debating personas in base order.
BaseNames ==
    SelectSeq(<<"Socrates", "Plato", "Aristotle">>,
              LAMBDA n : \E k \in Personas : (k = "socrates" /\ n = "Socrates")
                                          \/ (k = "plato" /\ n = "Plato")
                                          \/ (k = "aristotle" /\ n = "Aristotle"))

\* C14: in every round each registered debating persona speaks exactly once;
\* with random_order disabled the order of every round is the base order
\* socrates, plato, aristotle restricted to the registered ones, with it
\* enabled the order of a round is a permutation of them; all turns of round
\* r precede all turns of round r + 1.
C14_RoundOrder ==
    gen.history # <<>> =>
       LET h == gen.history
           debating == {k \in 1..Len(h) : "round" \in DOMAIN h[k]}
       IN /\ \A k \in debating : \A l \in debating : k < l => h[k].round <= h[l].round
          /\ \A r \in 1..gen.rounds[1] :
                LET sp == RoundSpeakers(h, r)
                IN /\ \A a \in 1..Len(sp) : \A b \in 1..Len(sp) : sp[a] = sp[b] => a = b
                   /\ \A a \in 1..Len(sp) : \E b \in 1..Len(BaseNames) : sp[a] = BaseNames[b]
                   /\ ~config.random_order => sp = SubSeq(BaseNames, 1, Len(sp))
                   /\ (Completed \/ r < gen.round_idx) => Len(sp) = Len(BaseNames)

\* C14 witness: a run of two rounds of three personas in random order is
\* completed, and its second round is not in base order.
C14_Witness ==
    /\ Completed
    /\ config.random_order
    /\ gen.rounds = Some(2)
    /\ Len(BaseNames) = 3
    /\ RoundSpeakers(gen.history, 2) # BaseNames

\* C15: the history a frame carries is a snapshot of the transcript at its
\* emission: turns appended later do not change it, so the k-th frame keeps a
\* history of exactly k turns (started and debating frames), and every frame
\* the length its history had when it was emitted.
C15_FrameHistorySnapshot ==
    \A i \in 1..Len(frames) :
       /\ Len(FrameHistory(i)) = frames[i].hlen
       /\ frames[i].status \in {"started", "debating"} => Len(FrameHistory(i)) = i

\* C17: stream_debate uses the caller's rounds whenever one is supplied and
\* config.default_rounds only when none is; likewise the caller's
\* enable_summary whenever one is supplied (true or false) and
\* config.enable_summary only when none is.
C17_OverridesUsed ==
    (runs # <<>> /\ gen.pc \in {"suspended", "replying", "summarizing", "done"}) =>
       /\ gen.rounds = IF CurrentRun.rounds_arg # NoneV
                       THEN CurrentRun.rounds_arg
                       ELSE Some(config.default_rounds)
       /\ gen.enable_summary = IF CurrentRun.summary_arg # NoneV
                               THEN CurrentRun.summary_arg
                               ELSE Some(config.enable_summary)

\* C18: after every reply the tool-using persona returns, tool-assisted or
\* not, if the reply is non-empty it is recorded in the memory store under
\* the key "{persona}_insight_{n}", n the transcript length at that turn.
C18_InsightRecorded ==
    [][ (/\ gen.pc = "replying" /\ gen' # gen
         /\ Head(gen.order) = "aristotle"
         /\ lastcall'[1].out # NoneV
         /\ lastcall'[1].out[1] # <<>>)
        => \E k \in 1..Len(mem'.entries) :
              /\ mem'.entries[k].key = <<"aristotle_insight_", ToString(Len(gen.history))>>
              /\ mem'.entries[k].value = lastcall'[1].out[1]
      ]_vars

\* The positions of the generator inside a run.
RunPcs == {"created", "suspended", "replying", "summarizing"}

\* C16: one frame is produced per completed turn and the orchestrator never
\* runs ahead of the consumer: every request is answered by at most one frame
\* (exactly one once the generator waits again), the k-th frame of a run up
\* to the last debating one is emitted with k turns in the transcript, and a
\* reply call, a transcript append or a memory write of the run happens only
\* while a request of the consumer is outstanding, never between the receipt
\* of a frame and the next request.
C16_OneFramePerTurn ==
    /\ [](gen.pc \in (RunPcs \cup {"done"}) =>
            /\ Len(frames) <= caller.pulls
            /\ caller.pulls <= Len(frames) + 1
            /\ (gen.pc = "suspended" => Len(frames) = caller.pulls)
            /\ \A i \in 1..Len(frames) :
                  frames[i].status # "completed" => frames[i].hlen = i)
    /\ [][ (/\ gen.pc \in RunPcs
            /\ \/ lastcall' # lastcall
               \/ gen'.history # gen.history
               \/ mem' # mem)
           => /\ Len(frames) < caller'.pulls
              /\ Len(frames') <= Len(frames) + 1
              /\ Len(gen'.history) <= Len(gen.history) + 1
              /\ (gen.pc = "suspended" => caller'.pulls = caller.pulls + 1)
         ]_vars

\* Two replies were made and their frames received, the generator waiting.
C16_Witness ==
    /\ gen.pc = "suspended"
    /\ Len(frames) = 3
    /\ caller.pulls = 3
    /\ frames[3].status = "debating"
    /\ lastcall # NoneV
    /\ lastcall[1].out # NoneV

\* C19: with tools enabled the classifier returns the result of the first
\* rule, in this order, that matches the lower-cased prompt: (a) a
\* digit-operator-digit expression: calculate; (b) a search-intent keyword:
\* web_search; (c) current/today/now/date/time: get_current_info; (d) any
\* digit: calculate; (e) a leading what/who/where/when/why/how: web_search;
\* (f) otherwise no tool.  The five prompts of the tests classify as stated.
C19_ToolRules ==
    (probe.op = "detect" /\ probe.enabled) =>
       LET text == LowerText(probe.prompt)
           a == \E i \in 1..(Len(text) - 2) :
                   /\ text[i] \in Digits
                   /\ text[i + 1] \in {"+", "-", "*", "/", "%", "(", ")"}
                   /\ text[i + 2] \in Digits
           b == \E k \in SearchIntents : Contains(text, k)
           c == \E k \in {<<"c", "u", "r", "r", "e", "n", "t">>,
                          <<"t", "o", "d", "a", "y">>, <<"n", "o", "w">>,
                          <<"d", "a", "t", "e">>, <<"t", "i", "m", "e">>} :
                   Contains(text, k)
           d == \E i \in 1..Len(text) : text[i] \in Digits
           e == \E qw \in {<<"w", "h", "a", "t">>, <<"w", "h", "o">>,
                           <<"w", "h", "e", "r", "e">>, <<"w", "h", "e", "n">>,
                           <<"w", "h", "y">>, <<"h", "o", "w">>} :
                   StartsWith(text, qw)
       IN /\ a => probe.tool = Some("calculate")
          /\ (~a /\ b) => probe.tool = Some("web_search")
          /\ (~a /\ ~b /\ c) => probe.tool = Some("get_current_info")
          /\ (~a /\ ~b /\ ~c /\ d) => probe.tool = Some("calculate")
          /\ (~a /\ ~b /\ ~c /\ ~d /\ e) => probe.tool = Some("web_search")
          /\ (~a /\ ~b /\ ~c /\ ~d /\ ~e) => probe.tool = NoneV
          /\ probe.prompt \in {CalculatePrompt, NormalizationPrompt}
                => probe.tool = Some("calculate")
          /\ probe.prompt \in {SearchPrompt, ExplainPrompt}
                => probe.tool = Some("web_search")
          /\ probe.prompt = TimePrompt => probe.tool = Some("get_current_info")

\* A prompt with a search intent and a temporal word was classified.
C19_Witness ==
    /\ probe.op = "detect"
    /\ probe.enabled
    /\ probe.prompt = <<"f", "i", "n", "d", " ", "n", "o", "w", " ">>
    /\ probe.tool = Some("web_search")

\* C20: execute_tool never raises to its caller: for a name that is not
\* registered it returns the string "Error: Tool '<name>' not found", and
\* when the registered function raises it returns a string that describes
\* the error.
C20_ExecuteToolNeverRaises ==
    probe.op = "execute" =>
       /\ ~probe.result.raised
       /\ probe.tool_name \notin {"web_search", "calculate", "get_current_info"}
             => probe.result.value = <<"Error: Tool '", probe.tool_name, "' not found">>
       /\ (/\ probe.tool_name \in {"web_search", "calculate", "get_current_info"}
           /\ probe.outcome = "error")
             => /\ probe.result.value # <<>>
                /\ Head(probe.result.value) = "Tool execution error: "

\* A registered tool's function raised inside execute_tool.
C20_Witness ==
    /\ probe.op = "execute"
    /\ probe.tool_name = "calculate"
    /\ probe.outcome = "error"

\* C21: constructing a MemoryStore over a durable file that is missing or
\* does not parse gives an empty store; when the write of the durable file
\* fails, add and clear still return and the in-memory store reflects the
\* operation: after clear it is empty, after add it holds what the insertion
\* and eviction of the call's key, value, source and time leave, whatever
\* became of the file.
C21_DiskFailuresSwallowed ==
    [][ nops' = nops + 1 =>
          /\ (memop'.op = "init" /\ mem'.has_path /\ file.state # "ok")
                => mem'.entries = <<>>
          /\ memop'.op = "clear" => mem'.entries = <<>>
          /\ memop'.op = "add" =>
                mem'.entries = AddEntries(mem, memop'.key[1], memop'.value,
                                          memop'.source, now)
      ]_vars

\* An add returned although the file could not be written: the file is
\* left unparsable and the store holds the entry.
C21_Witness ==
    /\ memop.op = "add"
    /\ mem.has_path /\ mem.auto_save
    /\ file.state = "corrupt"
    /\ HasKey(mem.entries, memop.key[1])

\* C22: with a durable path and writes succeeding, after every add and every
\* clear on a store with auto_save on the durable file holds exactly the
\* in-memory mapping, key by key in order, and a new store loaded from it has
\* the same entries; with auto_save off add and clear leave the file as it
\* was.
C22_FileMirrorsStore ==
    [][ (nops' = nops + 1 /\ memop'.op \in {"add", "clear"} /\ mem.has_path) =>
          IF mem.auto_save
          THEN /\ file'.state = "ok"
               /\ Len(file'.data) = Len(mem'.entries)
               /\ \A i \in 1..Len(mem'.entries) :
                     file'.data[i] =
                        <<mem'.entries[i].key,
                          <<<<"key", mem'.entries[i].key>>,
                            <<"value", mem'.entries[i].value>>,
                            <<"timestamp", mem'.entries[i].timestamp>>,
                            <<"source", mem'.entries[i].source>>>>>>
               /\ NewStore(TRUE, TRUE, mem.max_entries, file').entries = mem'.entries
          ELSE file' = file
      ]_vars

\* A clear was written through to a file that held entries before.
C22_Witness ==
    /\ memop.op = "clear"
    /\ memop.size > 0
    /\ mem.has_path /\ mem.auto_save
    /\ file = [state |-> "ok", data |-> <<>>]

\* C25: add with a key already in the store overwrites that key's entry with
\* the value, source and time of the call, keeps exactly one entry for the
\* key, and leaves the size and every other entry unchanged.
C25_OverwriteOnReuse ==
    [][ (/\ nops' = nops + 1
         /\ memop'.op = "add"
         /\ HasKey(mem.entries, memop'.key[1]))
        => /\ Len(mem'.entries) = Len(mem.entries)
           /\ Cardinality({i \in 1..Len(mem'.entries) :
                              mem'.entries[i].key = memop'.key[1]}) = 1
           /\ \A i \in 1..Len(mem.entries) :
                 IF mem.entries[i].key = memop'.key[1]
                 THEN mem'.entries[i] = [key       |-> memop'.key[1],
                                         value     |-> memop'.value,
                                         timestamp |-> now,
                                         source    |-> memop'.source]
                 ELSE mem'.entries[i] = mem.entries[i]
      ]_vars

\* The entries of a sequence are distinct entries of the store, newest first,
\* and no entry of `pool` left out is newer than one taken.
NewestOf(r, pool) ==
    /\ \A i \in 1..Len(r) : r[i] \in pool
    /\ \A i, j \in 1..Len(r) : i < j => r[i] # r[j] /\ r[i].timestamp >= r[j].timestamp
    /\ \A e \in pool : (\A i \in 1..Len(r) : r[i] # e) =>
          \A i \in 1..Len(r) : e.timestamp <= r[i].timestamp

\* C24: search(query, limit) returns only entries whose key or value
\* contains the query, case ignored; it returns min(limit, number of such
\* entries) of them, newest first by timestamp, and none it leaves out is
\* newer than one it returns.
C24_SearchNewestMatches ==
    probe.op = "search" =>
       LET q == LowerText(probe.query)
           matches == {e \in EntriesOf(mem.entries) :
                          \/ Contains(LowerText(e.key), q)
                          \/ Contains(LowerText(e.value), q)}
           n == Cardinality(matches)
       IN /\ Len(probe.result) = IF probe.limit < n THEN probe.limit ELSE n
          /\ NewestOf(probe.result, matches)

\* A query in another case than the texts it matches, with more matches
\* than the limit.
C24_Witness ==
    /\ probe.op = "search"
    /\ probe.query = <<"B", "A">>
    /\ probe.limit = 1
    /\ Len(mem.entries) = 2
    /\ \A i \in 1..2 : mem.entries[i].value = <<"B", "a">>
    /\ mem.entries[1].timestamp = 0
    /\ mem.entries[2].timestamp = 1
    /\ probe.result = <<mem.entries[2]>>

RECURSIVE DigestOf(_)
DigestOf(r) ==
    IF r = <<>> THEN <<>>
    ELSE <<"\n", "- ">> \o r[1].key \o <<": ">> \o r[1].value
         \o <<" (from ", r[1].source, ")">> \o DigestOf(Tail(r))

\* The sequences of k distinct entries of a store.
Picks(es, k) ==
    {[i \in 1..k |-> es[f[i]]] : f \in {g \in [1..k -> 1..Len(es)] :
                                          \A a, b \in 1..k : a # b => g[a] # g[b]}}

\* C23: format_for_prompt(limit) on an empty store returns the fixed text
\* "No relevant memory."; on a non-empty store of size s, for every limit
\* >= 0, the text lists exactly min(limit, s) entries, one line each, most
\* recent first by timestamp, none left out being newer than one listed.
C23_RenderDigest ==
    probe.op = "render" =>
       IF mem.entries = <<>>
       THEN probe.text = <<"No relevant memory.">>
       ELSE LET s == Len(mem.entries)
                k == IF probe.limit < s THEN probe.limit ELSE s
            IN \E r \in Picks(mem.entries, k) :
                  /\ NewestOf(r, EntriesOf(mem.entries))
                  /\ \/ probe.text = <<"Recent relevant context:">> \o DigestOf(r)
                     \/ k = 0 /\ probe.text = <<"No relevant memory.">>

\* The digest of the newer of two entries, the older one inserted last.
C23_Witness ==
    /\ probe.op = "render"
    /\ probe.limit = 1
    /\ Len(mem.entries) = 2
    /\ mem.entries[1].timestamp = 1
    /\ mem.entries[2].timestamp = 0
    /\ probe.text = <<"Recent relevant context:", "\n", "- ">> \o mem.entries[1].key
                    \o <<": ">> \o mem.entries[1].value \o <<" (from ", "system", ")">>

\* The display names of the debating personas the provider has a config for.
ConfiguredNames ==
    {n \in {"Socrates", "Plato", "Aristotle"} :
        \/ n = "Socrates" /\ "socrates" \in config.personas
        \/ n = "Plato" /\ "plato" \in config.personas
        \/ n = "Aristotle" /\ "aristotle" \in config.personas}

\* C26: a persona the config provider has no config for is absent from the
\* registry of the constructed orchestrator, and runs proceed with the
\* remaining personas: every round of a completed run has exactly one turn
\* of each debating persona that has a config, and without a summarizer
\* config no Summary turn and no summary are produced.
C26_MissingPersonaOmitted ==
    /\ \A k \in {"socrates", "plato", "aristotle", "summary"} :
          k \in agents <=> k \in config.personas
    /\ Completed =>
          /\ \A r \in 1..gen.rounds[1] :
                LET sp == RoundSpeakers(gen.history, r)
                IN /\ Len(sp) = Cardinality(ConfiguredNames)
                   /\ {sp[i] : i \in 1..Len(sp)} = ConfiguredNames
          /\ "summary" \notin config.personas =>
                /\ \A i \in 1..Len(gen.history) : gen.history[i].speaker # "Summary"
                /\ LastFrame.summary = NoneV

\* A run of two rounds is completed by the two personas that have a config,
\* the summary asked for and no summarizer configured.
C26_Witness ==
    /\ Completed
    /\ config.personas = {"socrates", "aristotle", "kant"}
    /\ gen.rounds = Some(2)
    /\ gen.enable_summary = Some(TRUE)
    /\ Len(gen.history) = 5

\* C27: with tools_enabled false the tool-using persona's reply never calls
\* the tool layer and never writes a memory key that starts with "tool_",
\* whatever the question and the transcript.
C27_ToolsGatedOff ==
    ~tools =>
       /\ \A i \in 1..Len(mem.entries) : Head(mem.entries[i].key) # "tool_"
       /\ memop.op = "add" => Head(memop.key[1]) # "tool_"
       /\ lastcall # NoneV => lastcall[1].tool = NoneV

\* With tools disabled the persona replied to a question that holds an
\* arithmetic expression, and its reply was recorded as an insight.
C27_Witness ==
    /\ ~tools
    /\ gen.question = <<"2", "+", "3">>
    /\ lastcall # NoneV
    /\ lastcall[1].agent = "aristotle"
    /\ lastcall[1].out # NoneV
    /\ memop.op = "add"
    /\ Head(memop.key[1]) = "aristotle_insight_"

\* C29: the transcript is append-only during a run and every reply call
\* receives it in full: the call for the k-th debating turn is given exactly
\* k turns, the seed and the k - 1 turns appended so far in order (retry
\* sentinels among them), and the summarizer is given all 1 + R * P turns.
C29_FullTranscriptSeen ==
    /\ [][ gen.pc \in {"suspended", "replying", "summarizing"} =>
              /\ Len(gen'.history) >= Len(gen.history)
              /\ SubSeq(gen'.history, 1, Len(gen.history)) = gen.history ]_vars
    /\ [][ (gen.pc = "replying" /\ gen' # gen) =>
              /\ lastcall'[1].history = gen.history
              /\ gen.history[1] = [speaker |-> "User", content |-> gen.question]
              /\ \A i \in 2..Len(gen.history) : "round" \in DOMAIN gen.history[i]
              /\ Len(gen'.history) > Len(gen.history) =>
                    /\ Len(gen'.history) = Len(gen.history) + 1
                    /\ lastcall'[1].history = SubSeq(gen'.history, 1, Len(gen'.history) - 1)
         ]_vars
    /\ [][ (gen.pc = "summarizing" /\ gen' # gen) =>
              /\ lastcall'[1].history = gen.history
              /\ Len(lastcall'[1].history) = 1 + gen.rounds[1] * Cardinality(Personas)
         ]_vars

\* The summarizer was given a transcript of two rounds of three personas
\* that holds a retry sentinel.
C29_Witness ==
    /\ lastcall # NoneV
    /\ lastcall[1].agent = "summary"
    /\ Len(lastcall[1].history) = 7
    /\ config.max_retries = 2
    /\ \E i \in 2..7 : \E k \in Personas :
          lastcall[1].history[i].content = SentinelText(k, 2)

Nth(S, k) == CHOOSE x \in S : Cardinality({y \in S : y < x}) = k - 1

\* The places a line of s starts after: 0 and every line break.
LineStarts(s) == {0} \cup {i \in 1..Len(s) : s[i] = "\n"}

\* The line of s that starts after place b.
LineAt(s, b) ==
    LET e == IF \E i \in (b + 1)..Len(s) : s[i] = "\n"
             THEN CHOOSE i \in (b + 1)..Len(s) :
                      s[i] = "\n" /\ \A j \in (b + 1)..(i - 1) : s[j] # "\n"
             ELSE Len(s) + 1
    IN SubSeq(s, b + 1, e - 1)

\* The non-blank lines of s, in order.
NonBlankLines(s) ==
    LET starts == {b \in LineStarts(s) : \E i \in 1..Len(LineAt(s, b)) :
                                            LineAt(s, b)[i] \notin Whitespace}
    IN [k \in 1..Cardinality(starts) |-> LineAt(s, Nth(starts, k))]

\* The lines of text r are the lines of ls, each up to surrounding whitespace,
\* and r has no blank line.
SameLines(r, ls) ==
    /\ Len(NonBlankLines(r)) = Len(ls)
    /\ Cardinality(LineStarts(r)) = IF ls = <<>> THEN 1 ELSE Len(ls)
    /\ ls = <<>> => r = <<>>
    /\ \A k \in 1..Len(ls) : Strip(NonBlankLines(r)[k]) = Strip(ls[k])

\* C28 as stated: the summarizer's post-processing keeps every non-blank
\* line of the raw reply, in order, and removes every blank line, so the
\* response has as many lines as the raw reply has non-blank lines.
C28_EveryLineKept ==
    probe.op = "extract" => SameLines(probe.response, NonBlankLines(probe.raw))

\* The raw reply, stripped, begins with one of the persona prefixes.
HasPrefix(raw) ==
    \/ StartsWith(Strip(raw), <<"S", "u", "m", "m", "a", "r", "y", ":">>)
    \/ StartsWith(Strip(raw), <<"[", "S", "u", "m", "m", "a", "r", "y", "]">>)

\* The raw reply, stripped, without the persona prefix it begins with.
AfterPrefix(raw) ==
    IF StartsWith(Strip(raw), <<"S", "u", "m", "m", "a", "r", "y", ":">>)
    THEN SubSeq(Strip(raw), 9, Len(Strip(raw)))
    ELSE SubSeq(Strip(raw), 10, Len(Strip(raw)))

\* C28, amended: the post-processing keeps every non-blank line of the raw
\* reply, in order, and removes every blank line when the reply does not
\* begin with the persona prefix ("Summary:" or "[Summary]"); when it does,
\* the prefix is removed first and the non-blank lines of the rest are kept.
\* No line of the response keeps trailing whitespace.
C28_LinesKeptAfterPrefix ==
    probe.op = "extract" =>
       /\ ~HasPrefix(probe.raw)
             => SameLines(probe.response, NonBlankLines(probe.raw))
       /\ HasPrefix(probe.raw)
             => SameLines(probe.response, NonBlankLines(AfterPrefix(probe.raw)))
       /\ \A b \in LineStarts(probe.response) :
             LET line == LineAt(probe.response, b)
             IN line # <<>> => line[Len(line)] \notin Whitespace

\* A raw reply of three non-blank lines and one blank line was processed
\* into three lines.
C28_Witness ==
    /\ probe.op = "extract"
    /\ probe.raw = <<"a", "\n", "a", "\n", "\n", "a">>
    /\ probe.response = <<"a", "\n", "a", "\n", "a">>


(***************************************************************************)
(* Properties of the tool query, under SpecMath.                           *)
(***************************************************************************)
\* The runs of expression characters of a prompt that are as long as any:
\* each is given by the index it starts at.
LongestRuns(prompt) ==
    LET starts == {i \in 1..Len(prompt) :
                      /\ prompt[i] \in ExprChars
                      /\ (i = 1 \/ prompt[i - 1] \notin ExprChars)}
        size(i) == RunEnd(prompt, i, ExprChars) - i
    IN {i \in starts : \A j \in starts : size(j) <= size(i)}

\* C31: when the reply uses the math tool, the query passed to the tool is
\* the longest contiguous run of digits, operators, parentheses, dots and
\* spaces of the raw prompt (without the whitespace around it, as in
\* "Calculate 5 + 3" giving "5 + 3").
C31_QueryIsLongestRun ==
    (lastcall # NoneV /\ lastcall[1].tool = Some("calculate"))
        => \E i \in LongestRuns(gen.question) :
               lastcall[1].query
                   = Some(Strip(SubSeq(gen.question, i,
                                       RunEnd(gen.question, i, ExprChars))))

(***************************************************************************)
(* Reading back what was added, under SpecMem.                             *)
(***************************************************************************)
\* C32: immediately after add(key, value, source) returns, get(key) returns
\* value, whatever the store held before (max_entries is at least 1 in
\* every store built).
C32_GetAfterAdd ==
    [][ (nops' = nops + 1 /\ memop'.op = "add")
        => GetEntry(mem', memop'.key[1]) = Some(memop'.value)
      ]_vars

(***************************************************************************)
(* The number of reply calls of a run, under Spec.                         *)
(***************************************************************************)
\* Whether the run summarizes: the caller's enable_summary or the configured
\* one, and a summarizer in the registry.
Summarizes(r) ==
    /\ IF r.summary_arg = NoneV THEN config.enable_summary ELSE r.summary_arg[1]
    /\ "summary" \in agents

\* The reply call to a debating persona that a step makes, if it makes one.
DebaterCalled(before, after) ==
    /\ after # NoneV
    /\ after # before
    /\ after[1].agent # "summary"

\* Which call of its run a reply call is: the turn it is made for (the
\* transcript holds the seed turn and the turns before it) and the attempt.
CallTurn(c) == Len(c.history)

\* C33: a run makes at most R * P * max_retries reply calls to debating
\* personas: every such call is one of the attempts 1..max_retries of one of
\* the turns 1..R * P, and a later call of the run is a later attempt of the
\* same turn or an attempt of a later turn, so no two calls are the same
\* attempt of the same turn.  The run makes at most one reply call to the
\* summarizer: a run that completed called it exactly once when summary is
\* enabled and registered, also when that call failed, and not at all
\* otherwise.
C33_CallCounts ==
    /\ [][ DebaterCalled(lastcall, lastcall')
           => /\ CallTurn(lastcall'[1]) \in
                     1..(CurrentRun.rounds * Cardinality(agents \ {"summary"}))
              /\ lastcall'[1].attempt \in 1..config.max_retries
              /\ \/ lastcall = NoneV
                 \/ CallTurn(lastcall'[1]) > CallTurn(lastcall[1])
                 \/ /\ CallTurn(lastcall'[1]) = CallTurn(lastcall[1])
                    /\ lastcall'[1].attempt > lastcall[1].attempt
         ]_vars
    /\ [][ \A i \in 1..Len(runs') :
              /\ runs'[i].summary_calls <= 1
              /\ runs'[i].completed
                     => runs'[i].summary_calls = IF Summarizes(runs'[i]) THEN 1 ELSE 0
         ]_vars

\* A completed run of two rounds and three personas in which every attempt
\* failed, the summarizer's one call included: the last debating call was
\* the second attempt of the sixth turn.
C33_Witness ==
    /\ runs # <<>>
    /\ CurrentRun.completed
    /\ CurrentRun.rounds = 2
    /\ Cardinality(agents \ {"summary"}) = 3
    /\ config.max_retries = 2
    /\ \A i \in 1..6 : CurrentRun.outs[i] = NoneV
    /\ CurrentRun.summary_calls = 1
    /\ CurrentRun.outs[7] = NoneV
    /\ gen.summary_text = NoneV
    /\ lastcall # NoneV /\ lastcall[1].agent = "summary"

(***************************************************************************)
(* The tool entries of a turn, under SpecFaulty.                           *)
(***************************************************************************)
\* The keys of the tool entries a store holds.
ToolKeys(es) == {es[i].key : i \in {j \in 1..Len(es) : es[j].key[1] = "tool_"}}

\* The reply call of the tool-using persona that a step makes, if it makes
\* one that uses a tool.
ToolCalled(before, after) ==
    /\ after # NoneV
    /\ after # before
    /\ after[1].agent = "aristotle"
    /\ after[1].tool # NoneV

StreamsNow == {Stream(gen, frames, lastcall, runs, caller), other}

\* The transcript of a started stream is its own: the seed turn of its
\* question, then one turn for each reply call that ended a turn of this
\* stream, by the speaker this stream's order gave the turn, with that call's
\* reply (or the retry sentinel), then its own summary if it made one.
OwnTranscript(s) ==
    s.gen.pc \in {"suspended", "replying", "summarizing", "done"}
       => LET h == s.gen.history
              r == s.runs[Len(s.runs)]
              P == Cardinality(Personas)
              turns == Len(r.outs) - r.summary_calls
          IN /\ h[1] = [speaker |-> "User", content |-> s.gen.question]
             /\ turns <= r.rounds * P
             /\ r.completed => turns = r.rounds * P
             /\ Len(h) = 1 + turns + (IF s.gen.summary_text # NoneV THEN 1 ELSE 0)
             /\ \A k \in 1..turns :
                   LET rd  == ((k - 1) \div P) + 1
                       key == r.orders[rd][((k - 1) % P) + 1]
                   IN h[k + 1] =
                         [speaker |-> Name(key),
                          content |-> IF r.outs[k] = NoneV
                                      THEN <<"[Error: ", key, " failed after ",
                                             ToString(config.max_retries), " attempts]">>
                                      ELSE r.outs[k][1],
                          round   |-> rd]
             /\ s.gen.summary_text # NoneV
                   => h[Len(h)] = [speaker |-> "Summary",
                                   content |-> s.gen.summary_text[1]]

\* C35: when two streams obtained from the same orchestrator are advanced in
\* any order of their pulls, each stream's history holds only its own seed
\* turn and the turns produced for that stream, R * P of them once it has
\* completed, although both streams write the same memory store.
C35_StreamsIsolated == \A s \in StreamsNow : OwnTranscript(s)

\* Both streams are in the middle of their runs, on different questions: one
\* has had two turns, the other three, and the shared store holds the
\* question of the stream that started last.
C35_Witness ==
    /\ gen.pc = "suspended" /\ other.gen.pc = "suspended"
    /\ gen.question = <<"q", "1">> /\ other.gen.question = <<"q", "2">>
    /\ Len(gen.history) = 3 /\ Len(other.gen.history) = 4
    /\ gen.history[1].content = <<"q", "1">>
    /\ other.gen.history[1].content = <<"q", "2">>
    /\ GetEntry(mem, <<"initial_question">>) = Some(<<"q", "2">>)
    /\ Len(frames) = 3 /\ Len(other.frames) = 4


====
